---- MODULE Spec2Model ----
(***************************************************************************)
(* A model of package xerr: MultiError (src/multi_error.go) and the stack  *)
(* errors (src/stack_error.go).                                            *)
(*                                                                         *)
(* Specifications over the same definitions of the methods:                *)
(*   SpecSeq  one caller, every method call one atomic step (the           *)
(*            functional behaviour of the API, on an absent reference and  *)
(*            on an instance made by NewMultiError);                       *)
(*   Spec     several goroutines, every method call split at its guard     *)
(*            operations (lock, body, unlock), on a shared instance made   *)
(*            by NewMultiError or from the same absent reference;          *)
(*   SpecFair  Spec under the fair scheduling of the goroutines;            *)
(*   SpecMem  one caller, the slices of an instance and of the results of  *)
(*            Errors() over their backing arrays;                          *)
(*   SpecStack  one caller building and reading stack errors;              *)
(*   SpecRender  one caller building and rendering stack errors and        *)
(*            setting the frame policies;                                  *)
(*   SpecConf  one caller applying the frame policies and the name         *)
(*            processors to function names and files.                      *)
(***************************************************************************)
EXTENDS Integers, Sequences, FiniteSets, TLC

(***************************************************************************)
(* Bounds of the model.                                                    *)
(***************************************************************************)
\* SpecSeq: the longest stored sequence, and the longest argument list.
MaxLen == 3
MaxArgs == 3
\* Spec: the number of goroutines.
NumThreads == 2
\* SpecStack: the number of stack errors built.
MaxErrs == 3
\* SpecRender: the number of stack errors built.
RenderErrs == 3
\* SpecConf: the number of parts of a function name.
MaxName == 3

(***************************************************************************)
(* Error values.  An error is a record; `kind' is its dynamic type.        *)
(*   nil     the nil error interface                                       *)
(*   std     errors.New(...): a pointer, equal only to itself              *)
(*   custom  a comparable struct error that implements fmt.Formatter       *)
(*   wrap    an error whose Unwrap() returns items[1]                      *)
(*   multi   a *MultiError: id is its address, 0 the nil pointer           *)
(*   new     a *MultiError just allocated by Unwrap and reachable only     *)
(*           from the value itself: its contents are carried in items and  *)
(*           id is 1 when it has a guard                                   *)
(***************************************************************************)
Nil == [kind |-> "nil", id |-> 0, items |-> <<>>]
StdErr(n) == [kind |-> "std", id |-> n, items |-> <<>>]
CustomErr == [kind |-> "custom", id |-> 0, items |-> <<>>]
WrapErr(n, cause) == [kind |-> "wrap", id |-> n, items |-> <<cause>>]
Ptr(a) == [kind |-> "multi", id |-> a, items |-> <<>>]
NewAgg(items, guarded) ==
    [kind |-> "new", id |-> IF guarded THEN 1 ELSE 0, items |-> items]

\* The errors a caller stores (never nil, never an aggregate).
Wrap1 == WrapErr(1, StdErr(1))
SeqItems == {StdErr(1), StdErr(2), Wrap1, CustomErr}
\* What a caller may pass to Add / AddOnce.
SeqArgs == SeqItems \cup {Nil}
\* Targets of Is and errors.Is.
NilPtr == Ptr(0)
Targets == SeqItems \cup {Nil, StdErr(3), NilPtr, Ptr(1)}
\* Target types of As and errors.As.
Types == {"std", "custom", "wrap", "multi"}

TypeOf(e) == IF e.kind = "new" THEN "multi" ELSE e.kind

(***************************************************************************)
(* Text.  A string is a sequence of tokens; "\n" is one token (one byte).  *)
(***************************************************************************)
Tok(s, n) == [s |-> s, n |-> n]
NL == Tok("\n", 0)

RECURSIVE Text(_)
\* err.Error() of a stored error.
Text(e) ==
    CASE e.kind = "std" -> <<Tok("some standard error", e.id)>>
      [] e.kind = "custom" -> <<Tok("dummy custom error", 0)>>
      [] e.kind = "wrap" -> <<Tok("wrapped", e.id), Tok(": ", 0)>> \o Text(e.items[1])
      [] OTHER -> <<>>

\* Whether a stored error implements fmt.Formatter.
IsFormatter(e) == e.kind = "custom"
\* What its Format writes (dummyCustomError writes only for %+v).
ItemFormat(e, verb, plus) ==
    IF verb = "v" /\ plus THEN Text(e) \o <<Tok(" %+v formatted", 0)>> ELSE <<>>

(***************************************************************************)
(* Heap objects: a MultiError is its slice and whether it has a guard.     *)
(***************************************************************************)
\* The object NewMultiError() allocates.
NewMultiError == [errors |-> <<>>, mu |-> TRUE]
\* A slip of the lazy allocation: the instance is given a guard.
newMultiError_Guarded == [errors |-> <<>>, mu |-> TRUE]

\* The object newMultiError() allocates.
newMultiError == [errors |-> <<>>, mu |-> FALSE]

\* A slip of Add: the new error is put in front.
AppendErr_Prepend(items, err) == <<err>> \o items

\* mErr.errors = append(mErr.errors, err)
AppendErr(items, err) == Append(items, err)

(***************************************************************************)
(* The methods of *MultiError as functions of the heap h (a sequence of    *)
(* objects, an address is an index) and the receiver mErr (NilPtr, Ptr(a)  *)
(* or a "new" value).  Each is the method's result with its guard held     *)
(* around the body, as one caller alone observes it.                       *)
(***************************************************************************)
Items(h, mErr) == IF mErr.kind = "new" THEN mErr.items ELSE h[mErr.id].errors
Guarded(h, mErr) == IF mErr.kind = "new" THEN mErr.id = 1 ELSE h[mErr.id].mu
IsMulti(e) == e.kind \in {"multi", "new"}

RECURSIVE JoinLines(_)
\* The buffer Error() fills: every item's text, each followed by "\n".
JoinLines(items) ==
    IF items = <<>> THEN <<>>
    ELSE Text(Head(items)) \o <<NL>> \o JoinLines(Tail(items))

\* A slip of Error: the last "\n" of the buffer is kept.
Error_TrailingNL(h, mErr) ==
    IF mErr = NilPtr THEN <<>>
    ELSE LET items == Items(h, mErr) IN
         CASE Len(items) = 0 -> <<>>
           [] Len(items) = 1 -> Text(items[1])
           [] OTHER -> JoinLines(items)

Error(h, mErr) ==
    IF mErr = NilPtr THEN <<>>
    ELSE LET items == Items(h, mErr) IN
         CASE Len(items) = 0 -> <<>>
           [] Len(items) = 1 -> Text(items[1])
           [] OTHER -> LET buf == JoinLines(items) IN SubSeq(buf, 1, Len(buf) - 1)

\* A slip of the lazy allocation: an instance allocated before is reused.
Alloc_Reuse(h, obj) ==
    IF h = <<>> THEN [h |-> Append(h, obj), m |-> Ptr(1)]
    ELSE [h |-> h, m |-> Ptr(1)]

\* mErr = newMultiError(): the heap with the new object, and its address.
Alloc(h, obj) == [h |-> Append(h, obj), m |-> Ptr(Len(h) + 1)]

RECURSIVE Add(_, _, _)
\* Add(errs...): the heap afterwards and the instance returned.
Add(h, mErr, errs) ==
    IF errs = <<>> THEN [h |-> h, m |-> mErr]
    ELSE LET err == Head(errs) IN
         IF err = Nil THEN Add(h, mErr, Tail(errs))
         ELSE LET a == IF mErr = NilPtr THEN Alloc(h, newMultiError)
                       ELSE [h |-> h, m |-> mErr]
                  h2 == [a.h EXCEPT ![a.m.id].errors = AppendErr(@, err)]
              IN Add(h2, a.m, Tail(errs))

\* A slip of Unwrap: the rest starts one item too far (errors[2:]).
Unwrap_SkipTwo(h, mErr) ==
    IF mErr = NilPtr THEN Nil
    ELSE LET items == Items(h, mErr) IN
         CASE Len(items) = 0 -> Nil
           [] Len(items) = 1 -> items[1]
           [] OTHER -> NewAgg(Tail(Tail(items)), Guarded(h, mErr))

\* A slip of Unwrap: nothing is returned for a single item.
Unwrap_NilForOne(h, mErr) ==
    IF mErr = NilPtr THEN Nil
    ELSE LET items == Items(h, mErr) IN
         IF Len(items) <= 1 THEN Nil
         ELSE NewAgg(Tail(items), Guarded(h, mErr))

Unwrap(h, mErr) ==
    IF mErr = NilPtr THEN Nil
    ELSE LET items == Items(h, mErr) IN
         CASE Len(items) = 0 -> Nil
           [] Len(items) = 1 -> items[1]
           [] OTHER ->
                LET fresh == IF Guarded(h, mErr) THEN NewMultiError ELSE newMultiError
                    r == Add(<<fresh>>, Ptr(1), Tail(items))
                IN NewAgg(r.h[1].errors, fresh.mu)

RECURSIVE ErrorsIs(_, _, _), IsLoop(_, _, _), Is(_, _, _)

\* errors.Is's loop ("is" of the standard library) over err's chain.
IsLoop(h, err, target) ==
    IF err = target THEN TRUE
    ELSE IF IsMulti(err) THEN
        IF Is(h, err, target) THEN TRUE
        ELSE LET u == Unwrap(h, err) IN
             IF u = Nil THEN FALSE ELSE IsLoop(h, u, target)
    ELSE IF err.kind = "wrap" THEN IsLoop(h, err.items[1], target)
    ELSE FALSE

\* errors.Is(err, target).
ErrorsIs(h, err, target) ==
    IF err = Nil \/ target = Nil THEN err = target ELSE IsLoop(h, err, target)

\* A slip of Is: every stored item is compared, not the first alone.
Is_AnyItem(h, mErr, target) ==
    IF mErr = NilPtr THEN mErr = target
    ELSE \E i \in 1..Len(Items(h, mErr)) : ErrorsIs(h, Items(h, mErr)[i], target)

Is(h, mErr, target) ==
    IF mErr = NilPtr THEN mErr = target
    ELSE LET items == Items(h, mErr) IN
         IF Len(items) > 0 THEN ErrorsIs(h, items[1], target) ELSE FALSE

NoMatch == [ok |-> FALSE, val |-> Nil]

RECURSIVE ErrorsAs(_, _, _), AsLoop(_, _, _), As(_, _, _)

\* errors.As's loop: [ok, val], val the error assigned to the target.
AsLoop(h, err, T) ==
    IF TypeOf(err) = T THEN [ok |-> TRUE, val |-> err]
    ELSE IF IsMulti(err) THEN
        LET m == As(h, err, T) IN
        IF m.ok THEN m
        ELSE LET u == Unwrap(h, err) IN
             IF u = Nil THEN NoMatch ELSE AsLoop(h, u, T)
    ELSE IF err.kind = "wrap" THEN AsLoop(h, err.items[1], T)
    ELSE NoMatch

\* errors.As(err, &target) for a target of type T.
ErrorsAs(h, err, T) == IF err = Nil THEN NoMatch ELSE AsLoop(h, err, T)

As(h, mErr, T) ==
    IF mErr = NilPtr THEN NoMatch
    ELSE LET items == Items(h, mErr) IN
         IF Len(items) > 0 THEN ErrorsAs(h, items[1], T) ELSE NoMatch

\* A slip of hasError: stored errors are compared with ==, not errors.Is.
hasError_Equal(h, mErr, err) ==
    \E i \in 1..Len(Items(h, mErr)) : Items(h, mErr)[i] = err

\* A slip of hasError: the candidate is the subject of errors.Is and the
\* stored error its target.
hasError_Reversed(h, mErr, err) ==
    \E i \in 1..Len(Items(h, mErr)) : ErrorsIs(h, err, Items(h, mErr)[i])

\* hasError(err): some stored error "is" err.
hasError(h, mErr, err) ==
    \E i \in 1..Len(Items(h, mErr)) : ErrorsIs(h, Items(h, mErr)[i], err)

RECURSIVE AddOnce(_, _, _)
AddOnce(h, mErr, errs) ==
    IF errs = <<>> THEN [h |-> h, m |-> mErr]
    ELSE LET err == Head(errs) IN
         IF err = Nil THEN AddOnce(h, mErr, Tail(errs))
         ELSE LET a == IF mErr = NilPtr THEN Alloc(h, newMultiError)
                       ELSE [h |-> h, m |-> mErr]
              IN IF hasError(a.h, a.m, err) THEN AddOnce(a.h, a.m, Tail(errs))
                 ELSE AddOnce([a.h EXCEPT ![a.m.id].errors = AppendErr(@, err)],
                              a.m, Tail(errs))

\* A slip of Errors: no nil-receiver branch, an empty slice is made.
Errors_NoNilBranch(h, mErr) ==
    [isNil |-> FALSE, items |-> IF mErr = NilPtr THEN <<>> ELSE Items(h, mErr)]

\* Errors(): a slice is absent (nil) or present with its items.
Errors(h, mErr) ==
    IF mErr = NilPtr THEN [isNil |-> TRUE, items |-> <<>>]
    ELSE [isNil |-> FALSE, items |-> Items(h, mErr)]

\* Reset(): the heap afterwards.
Reset(h, mErr) ==
    IF mErr = NilPtr THEN h
    ELSE IF Len(h[mErr.id].errors) > 0
         THEN [h EXCEPT ![mErr.id].errors = SubSeq(@, 1, 0)]
         ELSE h

\* A slip of ErrOrNil: the aggregate is returned for a single item too.
ErrOrNil_SelfForOne(h, mErr) ==
    IF mErr = NilPtr THEN Nil
    ELSE IF Len(Items(h, mErr)) = 0 THEN Nil ELSE mErr

ErrOrNil(h, mErr) ==
    IF mErr = NilPtr THEN Nil
    ELSE LET items == Items(h, mErr) IN
         CASE Len(items) = 0 -> Nil
           [] Len(items) = 1 -> items[1]
           [] OTHER -> mErr

RECURSIVE FormatFrom_ZeroBased(_, _, _, _)
\* A slip of Format: the index is written as it is counted, from 0.
FormatFrom_ZeroBased(items, idx, verb, plus) ==
    IF idx > Len(items) THEN <<>>
    ELSE (IF verb = "v"
          THEN <<Tok("error #", 0), Tok("int", idx - 1), NL>> ELSE <<>>)
         \o (IF IsFormatter(items[idx]) THEN ItemFormat(items[idx], verb, plus)
             ELSE Text(items[idx]))
         \o (IF idx # Len(items) THEN <<NL>> ELSE <<>>)
         \o FormatFrom_ZeroBased(items, idx + 1, verb, plus)

RECURSIVE FormatFrom(_, _, _, _)
\* The loop of Format from index idx on.
FormatFrom(items, idx, verb, plus) ==
    IF idx > Len(items) THEN <<>>
    ELSE (IF verb = "v"
          THEN <<Tok("error #", 0), Tok("int", idx), NL>> ELSE <<>>)
         \o (IF IsFormatter(items[idx]) THEN ItemFormat(items[idx], verb, plus)
             ELSE Text(items[idx]))
         \o (IF idx # Len(items) THEN <<NL>> ELSE <<>>)
         \o FormatFrom(items, idx + 1, verb, plus)

\* Format(f, verb): what is written to f.
Format(h, mErr, verb, plus) ==
    IF mErr = NilPtr THEN <<>>
    ELSE LET items == Items(h, mErr) IN
         IF Len(items) = 0 THEN <<>> ELSE FormatFrom(items, 1, verb, plus)

(***************************************************************************)
(* State.                                                                  *)
(*   heap   the MultiError objects allocated so far                        *)
(*   sref   SpecSeq: the caller's variable of type *MultiError             *)
(*   last   SpecSeq: the last call: its name, arguments, receiver, the     *)
(*          heap before it and what it returned                            *)
(*   ghost  SpecSeq: whether only Add has been called so far, and the      *)
(*          non-nil arguments of those calls in call order                 *)
(*   guard  Spec: the state of each object's sync.RWMutex: the goroutine   *)
(*          holding it for writing (0: none) and those holding it for      *)
(*          reading                                                        *)
(*   prog   Spec: the name of the program each goroutine runs              *)
(*   opIdx  Spec: the index in its program of the call a goroutine is at   *)
(*   pc     Spec: where in that call it is                                 *)
(*   ref    Spec: each goroutine's variable of type *MultiError            *)
(*   loc    Spec: the locals of the call in progress                       *)
(*   res    Spec: the index and the result of the goroutine's last         *)
(*          finished call                                                  *)
(*   mem    SpecMem: the backing arrays of the slices, the slice header    *)
(*          of the instance and of the slice a caller got from Errors      *)
(*   stk    SpecStack: the stack errors built so far and the last call     *)
(***************************************************************************)
VARIABLES heap, sref, last, ghost, guard, prog, opIdx, pc, ref, loc, res,
          mem, stk

seqVars == <<sref, last, ghost>>
conVars == <<guard, prog, opIdx, pc, ref, loc, res>>
vars ==
    <<heap, sref, last, ghost, guard, prog, opIdx, pc, ref, loc, res, mem, stk>>

Threads == 1..NumThreads
LocIdle == [m |-> "", i |-> 0, ret |-> Nil]
NoRes == [idx |-> 0, ret |-> Nil]
\* The value of mem and of stk in the specifications that do not use them.
MemOff == [op |-> "off"]
StkOff == [op |-> "off"]

Call(op, recv, pre, args, ret) ==
    [op |-> op, recv |-> recv, pre |-> pre, args |-> args, ret |-> ret]

\* The argument lists of a variadic call.
ArgLists == UNION {[1..n -> SeqArgs] : n \in 0..MaxArgs}
\* The stored items of the caller's instance (none when it is absent).
Stored(h, m) == IF m = NilPtr THEN <<>> ELSE Items(h, m)
NonNil(errs) == SelectSeq(errs, LAMBDA e : e # Nil)
SeqTargets == SeqItems \cup {Nil, StdErr(3), NilPtr, sref}

Idle == Call("idle", NilPtr, <<>>, <<>>, Nil)

\* var multiErr *xerr.MultiError, or multiErr := xerr.NewMultiError()
InitSeq ==
    /\ \/ heap = <<>> /\ sref = NilPtr
       \/ heap = <<NewMultiError>> /\ sref = Ptr(1)
    /\ last = Idle
    /\ ghost = [onlyAdd |-> TRUE, concat |-> <<>>]
    /\ guard = <<>>
    /\ prog = [t \in Threads |-> "none"]
    /\ opIdx = [t \in Threads |-> 1]
    /\ pc = [t \in Threads |-> "call"]
    /\ ref = [t \in Threads |-> NilPtr]
    /\ loc = [t \in Threads |-> LocIdle]
    /\ res = [t \in Threads |-> NoRes]
    /\ mem = MemOff
    /\ stk = StkOff

\* multiErr = multiErr.Add(errs...)
SeqAdd ==
    /\ last.op = "idle"
    /\ \E errs \in ArgLists :
        /\ Len(Stored(heap, sref)) + Len(NonNil(errs)) <= MaxLen
        /\ LET r == Add(heap, sref, errs) IN
            /\ heap' = r.h
            /\ sref' = r.m
            /\ last' = Call("Add", sref, heap, errs, r.m)
        /\ ghost' = IF ghost.onlyAdd
                    THEN [ghost EXCEPT !.concat = @ \o NonNil(errs)]
                    ELSE ghost
    /\ UNCHANGED <<conVars, mem, stk>>

\* multiErr = multiErr.AddOnce(errs...)
SeqAddOnce ==
    /\ last.op = "idle"
    /\ \E errs \in ArgLists :
        /\ Len(Stored(heap, sref)) + Len(NonNil(errs)) <= MaxLen
        /\ LET r == AddOnce(heap, sref, errs) IN
            /\ heap' = r.h
            /\ sref' = r.m
            /\ last' = Call("AddOnce", sref, heap, errs, r.m)
        /\ ghost' = [onlyAdd |-> FALSE, concat |-> <<>>]
    /\ UNCHANGED <<conVars, mem, stk>>

\* multiErr.Reset()
SeqReset ==
    /\ last.op = "idle"
    /\ heap' = Reset(heap, sref)
    /\ last' = Call("Reset", sref, heap, <<>>, Nil)
    /\ ghost' = [onlyAdd |-> FALSE, concat |-> <<>>]
    /\ UNCHANGED sref
    /\ UNCHANGED <<conVars, mem, stk>>

\* multiErr.Errors()
SeqErrors ==
    /\ last.op = "idle"
    /\ last' = Call("Errors", sref, heap, <<>>, Errors(heap, sref))
    /\ UNCHANGED <<heap, sref, ghost>>
    /\ UNCHANGED <<conVars, mem, stk>>

\* multiErr.Error()
SeqError ==
    /\ last.op = "idle"
    /\ last' = Call("Error", sref, heap, <<>>, Error(heap, sref))
    /\ UNCHANGED <<heap, sref, ghost>>
    /\ UNCHANGED <<conVars, mem, stk>>

\* multiErr.ErrOrNil()
SeqErrOrNil ==
    /\ last.op = "idle"
    /\ last' = Call("ErrOrNil", sref, heap, <<>>, ErrOrNil(heap, sref))
    /\ UNCHANGED <<heap, sref, ghost>>
    /\ UNCHANGED <<conVars, mem, stk>>

\* multiErr.Unwrap()
SeqUnwrap ==
    /\ last.op = "idle"
    /\ last' = Call("Unwrap", sref, heap, <<>>, Unwrap(heap, sref))
    /\ UNCHANGED <<heap, sref, ghost>>
    /\ UNCHANGED <<conVars, mem, stk>>

\* fmt.Sprintf("%v" | "%+v" | "%s", multiErr)
SeqFormat ==
    /\ last.op = "idle"
    /\ \E verb \in {"v", "s"}, plus \in BOOLEAN :
        last' = Call("Format", sref, heap, <<verb, plus>>,
                     Format(heap, sref, verb, plus))
    /\ UNCHANGED <<heap, sref, ghost>>
    /\ UNCHANGED <<conVars, mem, stk>>

\* multiErr.Is(t)
SeqIs ==
    /\ last.op = "idle"
    /\ \E t \in SeqTargets :
        last' = Call("Is", sref, heap, <<t>>, Is(heap, sref, t))
    /\ UNCHANGED <<heap, sref, ghost>>
    /\ UNCHANGED <<conVars, mem, stk>>

\* multiErr.As(&target)
SeqAs ==
    /\ last.op = "idle"
    /\ \E T \in Types :
        last' = Call("As", sref, heap, <<T>>, As(heap, sref, T))
    /\ UNCHANGED <<heap, sref, ghost>>
    /\ UNCHANGED <<conVars, mem, stk>>

\* errors.Is(multiErr, t)
SeqErrorsIs ==
    /\ last.op = "idle"
    /\ \E t \in SeqTargets :
        last' = Call("ErrorsIs", sref, heap, <<t>>, ErrorsIs(heap, sref, t))
    /\ UNCHANGED <<heap, sref, ghost>>
    /\ UNCHANGED <<conVars, mem, stk>>

\* errors.As(multiErr, &target)
SeqErrorsAs ==
    /\ last.op = "idle"
    /\ \E T \in Types :
        last' = Call("ErrorsAs", sref, heap, <<T>>, ErrorsAs(heap, sref, T))
    /\ UNCHANGED <<heap, sref, ghost>>
    /\ UNCHANGED <<conVars, mem, stk>>

\* The caller has looked at the result and goes on to its next call.
SeqReturn ==
    /\ last.op # "idle"
    /\ last' = Idle
    /\ UNCHANGED <<heap, sref, ghost>>
    /\ UNCHANGED <<conVars, mem, stk>>

NextSeq ==
    \/ SeqAdd
    \/ SeqAddOnce
    \/ SeqReset
    \/ SeqErrors
    \/ SeqError
    \/ SeqErrOrNil
    \/ SeqUnwrap
    \/ SeqFormat
    \/ SeqIs
    \/ SeqAs
    \/ SeqErrorsIs
    \/ SeqErrorsAs
    \/ SeqReturn

SpecSeq == InitSeq /\ [][NextSeq]_vars

(***************************************************************************)
(* Spec: goroutines.  Each runs a program, a sequence of calls on its      *)
(* variable ref[t]; all variables start as the same instance made by       *)
(* NewMultiError, or all as the same absent reference.  A call is split    *)
(* where the code takes and releases the guard.                            *)
(***************************************************************************)
\* The error goroutine t makes for itself, and a package-level error.
Own(t) == StdErr(t)
Sentinel == StdErr(0)
Op(name, args) == [name |-> name, args |-> args]

\* The goroutine of TestMultiError_concurrency.
TestProg(t) ==
    << Op("Add", <<Own(t)>>), Op("AddOnce", <<Own(t)>>), Op("Errors", <<>>),
       Op("Error", <<>>), Op("ErrOrNil", <<>>), Op("Format", <<"v", TRUE>>),
       Op("ErrorsIs", <<Own(t)>>) >>
\* Goroutines that report the same error, and their own, once and look at
\* the aggregate.
OnceProg(t) ==
    << Op("AddOnce", <<Sentinel, Own(t)>>), Op("Unwrap", <<>>),
       Op("Is", <<Sentinel>>), Op("As", <<"std">>) >>
\* A goroutine that adds, clears and reads.
ResetProg(t) ==
    << Op("Add", <<Nil, Own(t)>>), Op("Reset", <<>>), Op("Errors", <<>>) >>

ProgNames == {"test", "once", "reset"}
Program(t) ==
    CASE prog[t] = "test" -> TestProg(t)
      [] prog[t] = "once" -> OnceProg(t)
      [] prog[t] = "reset" -> ResetProg(t)
      [] OTHER -> <<>>

Running(t) == opIdx[t] <= Len(Program(t))
CurOp(t) == Program(t)[opIdx[t]]
ReadOps == {"Errors", "Error", "ErrOrNil", "Format", "Unwrap", "Is", "As"}

FreeGuard == [w |-> 0, r |-> {}]

\* A slip of the guard: Lock does not wait.
CanLock_NoWait(g) == TRUE
\* A slip of the guard: RLock does not wait for the writer to leave.
CanRLock_NoWait(g) == TRUE

\* A slip of a reading method: it returns without RUnlock.
RUnlocked_Kept(g, t) == g
\* sync.RWMutex: Unlock and RUnlock of the goroutine t.
Unlocked(g) == [g EXCEPT !.w = 0]
RUnlocked(g, t) == [g EXCEPT !.r = @ \ {t}]

\* sync.RWMutex: Lock waits until no goroutine holds the mutex.
CanLock(g) == g.w = 0 /\ g.r = {}
\* sync.RWMutex: RLock waits until no goroutine holds it for writing.
CanRLock(g) == g.w = 0

Init ==
    /\ \/ /\ heap = <<NewMultiError>>
          /\ guard = <<FreeGuard>>
          /\ ref = [t \in Threads |-> Ptr(1)]
       \/ /\ heap = <<>>
          /\ guard = <<>>
          /\ ref = [t \in Threads |-> NilPtr]
    /\ prog \in [Threads -> ProgNames]
    /\ opIdx = [t \in Threads |-> 1]
    /\ pc = [t \in Threads |-> "call"]
    /\ loc = [t \in Threads |-> LocIdle]
    /\ res = [t \in Threads |-> NoRes]
    /\ mem = MemOff
    /\ stk = StkOff
    /\ sref = NilPtr
    /\ last = Idle
    /\ ghost = [onlyAdd |-> TRUE, concat |-> <<>>]

\* The call returns ret: the goroutine is at its next call.
Finish(t, ret) ==
    /\ opIdx' = [opIdx EXCEPT ![t] = @ + 1]
    /\ pc' = [pc EXCEPT ![t] = "call"]
    /\ res' = [res EXCEPT ![t] = [idx |-> opIdx[t], ret |-> ret]]
    /\ loc' = [loc EXCEPT ![t] = LocIdle]

\* The index of the next non-nil member of errs after index i, 0 if none.
NextArg(errs, i) ==
    IF \E j \in (i + 1)..Len(errs) : errs[j] # Nil
    THEN CHOOSE j \in (i + 1)..Len(errs) :
             errs[j] # Nil /\ \A k \in (i + 1)..(j - 1) : errs[k] = Nil
    ELSE 0

\* The head of the loop of Add and AddOnce: nil members are skipped, an
\* absent receiver is allocated, and the guard is asked for; after the last
\* member the call returns the receiver.
LoopHead(t, name) ==
    /\ LET j == NextArg(CurOp(t).args, loc[t].i) IN
        IF j = 0
        THEN Finish(t, ref[t]) /\ UNCHANGED <<heap, guard, ref>>
        ELSE /\ IF ref[t] = NilPtr
                THEN LET a == Alloc(heap, newMultiError) IN
                      /\ heap' = a.h
                      /\ ref' = [ref EXCEPT ![t] = a.m]
                      /\ guard' = IF Len(a.h) > Len(heap)
                                  THEN Append(guard, FreeGuard) ELSE guard
                ELSE UNCHANGED <<heap, ref, guard>>
             /\ pc' = [pc EXCEPT ![t] = "lock"]
             /\ loc' = [loc EXCEPT ![t] = [m |-> name, i |-> j, ret |-> Nil]]
             /\ UNCHANGED <<opIdx, res>>
    /\ UNCHANGED <<prog, seqVars, mem, stk>>

\* Add(errs...) is called, or its loop comes to its next member.
AddCall(t) ==
    /\ pc[t] = "call"
    /\ Running(t)
    /\ CurOp(t).name = "Add"
    /\ LoopHead(t, "Add")

\* AddOnce(errs...) is called, or its loop comes to its next member.
AddOnceCall(t) ==
    /\ pc[t] = "call"
    /\ Running(t)
    /\ CurOp(t).name = "AddOnce"
    /\ LoopHead(t, "AddOnce")

\* Reset(): nothing to do on an absent receiver.
ResetCall(t) ==
    /\ pc[t] = "call"
    /\ Running(t)
    /\ CurOp(t).name = "Reset"
    /\ IF ref[t] = NilPtr
       THEN Finish(t, Nil)
       ELSE /\ pc' = [pc EXCEPT ![t] = "lock"]
            /\ loc' = [loc EXCEPT ![t].m = "Reset"]
            /\ UNCHANGED <<opIdx, res>>
    /\ UNCHANGED <<heap, guard, ref, prog, seqVars, mem, stk>>

\* What a reading method returns, its guard held.
ReadResult(op, h, mErr) ==
    CASE op.name = "Errors" -> Errors(h, mErr)
      [] op.name = "Error" -> Error(h, mErr)
      [] op.name = "ErrOrNil" -> ErrOrNil(h, mErr)
      [] op.name = "Format" -> Format(h, mErr, op.args[1], op.args[2])
      [] op.name = "Unwrap" -> Unwrap(h, mErr)
      [] op.name = "Is" -> Is(h, mErr, op.args[1])
      [] op.name = "As" -> As(h, mErr, op.args[1])

\* A reading method is called: it returns at once on an absent receiver
\* and asks for the guard otherwise.
ReadCall(t) ==
    /\ pc[t] = "call"
    /\ Running(t)
    /\ CurOp(t).name \in ReadOps
    /\ IF ref[t] = NilPtr
       THEN Finish(t, ReadResult(CurOp(t), heap, NilPtr))
       ELSE /\ pc' = [pc EXCEPT ![t] = "rlock"]
            /\ loc' = [loc EXCEPT ![t].m = CurOp(t).name]
            /\ UNCHANGED <<opIdx, res>>
    /\ UNCHANGED <<heap, guard, ref, prog, seqVars, mem, stk>>

\* errors.Is(mErr, target): nil and == are looked at first, then mErr.Is.
ErrorsIsCall(t) ==
    /\ pc[t] = "call"
    /\ Running(t)
    /\ CurOp(t).name = "ErrorsIs"
    /\ LET target == CurOp(t).args[1] IN
        IF ref[t] = NilPtr \/ target = Nil \/ ref[t] = target
        THEN Finish(t, ErrorsIs(heap, ref[t], target))
        ELSE /\ pc' = [pc EXCEPT ![t] = "rlock"]
             /\ loc' = [loc EXCEPT ![t].m = "Is"]
             /\ UNCHANGED <<opIdx, res>>
    /\ UNCHANGED <<heap, guard, ref, prog, seqVars, mem, stk>>

\* mErr.lock()
lock(t) ==
    /\ pc[t] = "lock"
    /\ LET a == ref[t].id IN
        IF heap[a].mu
        THEN CanLock(guard[a]) /\ guard' = [guard EXCEPT ![a].w = t]
        ELSE UNCHANGED guard
    /\ pc' = [pc EXCEPT ![t] = "wbody"]
    /\ UNCHANGED <<heap, ref, prog, opIdx, loc, res, seqVars, mem, stk>>

\* mErr.unlock(), and what follows it: Reset returns, the loop of Add and
\* AddOnce goes on.
unlock(t) ==
    /\ pc[t] = "unlock"
    /\ LET a == ref[t].id IN
        IF heap[a].mu
        THEN guard' = [guard EXCEPT ![a] = Unlocked(@)]
        ELSE UNCHANGED guard
    /\ IF loc[t].m = "Reset"
       THEN Finish(t, Nil)
       ELSE /\ pc' = [pc EXCEPT ![t] = "call"]
            /\ UNCHANGED <<opIdx, loc, res>>
    /\ UNCHANGED <<heap, ref, prog, seqVars, mem, stk>>

\* mErr.rLock()
rLock(t) ==
    /\ pc[t] = "rlock"
    /\ LET a == ref[t].id IN
        IF heap[a].mu
        THEN CanRLock(guard[a]) /\ guard' = [guard EXCEPT ![a].r = @ \cup {t}]
        ELSE UNCHANGED guard
    /\ pc' = [pc EXCEPT ![t] = "rbody"]
    /\ UNCHANGED <<heap, ref, prog, opIdx, loc, res, seqVars, mem, stk>>

\* mErr.rUnlock(), and what follows it: the method returns; inside
\* errors.Is a false Is is followed by Unwrap, and what Unwrap returned is
\* walked on (it is the goroutine's own).
rUnlock(t) ==
    /\ pc[t] = "runlock"
    /\ LET a == ref[t].id IN
        IF heap[a].mu
        THEN guard' = [guard EXCEPT ![a] = RUnlocked(@, t)]
        ELSE UNCHANGED guard
    /\ IF CurOp(t).name = "ErrorsIs"
       THEN IF loc[t].m = "Is"
            THEN IF loc[t].ret
                 THEN Finish(t, TRUE)
                 ELSE /\ pc' = [pc EXCEPT ![t] = "rlock"]
                      /\ loc' = [loc EXCEPT ![t].m = "Unwrap"]
                      /\ UNCHANGED <<opIdx, res>>
            ELSE Finish(t, IF loc[t].ret = Nil THEN FALSE
                           ELSE IsLoop(heap, loc[t].ret, CurOp(t).args[1]))
       ELSE Finish(t, loc[t].ret)
    /\ UNCHANGED <<heap, ref, prog, seqVars, mem, stk>>

\* append(mErr.errors, err) reads the sequence, the guard held ...
AddBody(t) ==
    /\ pc[t] = "wbody"
    /\ loc[t].m = "Add"
    /\ pc' = [pc EXCEPT ![t] = "wstore"]
    /\ loc' = [loc EXCEPT ![t].ret = heap[ref[t].id].errors]
    /\ UNCHANGED <<heap, guard, ref, prog, opIdx, res, seqVars, mem, stk>>

\* if mErr.hasError(err) { unlock; continue }, the guard held: the check
\* reads the sequence; the append that follows reads it again.
AddOnceBody(t) ==
    /\ pc[t] = "wbody"
    /\ loc[t].m = "AddOnce"
    /\ pc' = [pc EXCEPT ![t] =
                 IF hasError(heap, ref[t], CurOp(t).args[loc[t].i])
                 THEN "unlock" ELSE "wappend"]
    /\ UNCHANGED <<heap, guard, ref, prog, opIdx, loc, res, seqVars, mem, stk>>

\* append(mErr.errors, err) of AddOnce reads the sequence, the guard held.
AddOnceAppend(t) ==
    /\ pc[t] = "wappend"
    /\ loc[t].m = "AddOnce"
    /\ pc' = [pc EXCEPT ![t] = "wstore"]
    /\ loc' = [loc EXCEPT ![t].ret = heap[ref[t].id].errors]
    /\ UNCHANGED <<heap, guard, ref, prog, opIdx, res, seqVars, mem, stk>>

\* ... and mErr.errors = is the store of what was read with err appended.
AppendStore(t) ==
    /\ pc[t] = "wstore"
    /\ heap' = [heap EXCEPT ![ref[t].id].errors =
                   AppendErr(loc[t].ret, CurOp(t).args[loc[t].i])]
    /\ pc' = [pc EXCEPT ![t] = "unlock"]
    /\ UNCHANGED <<guard, ref, prog, opIdx, loc, res, seqVars, mem, stk>>

\* The clearing of Reset, the guard held.
ResetBody(t) ==
    /\ pc[t] = "wbody"
    /\ loc[t].m = "Reset"
    /\ heap' = Reset(heap, ref[t])
    /\ pc' = [pc EXCEPT ![t] = "unlock"]
    /\ UNCHANGED <<guard, ref, prog, opIdx, loc, res, seqVars, mem, stk>>

\* The body of a reading method m, the guard held: its result is kept.
\* (History, read by no action: Is leaves in i the number of items it saw.)
ReadBody(t, m) ==
    /\ pc' = [pc EXCEPT ![t] = "runlock"]
    /\ loc' = [loc EXCEPT ![t].ret =
                  ReadResult(Op(m, CurOp(t).args), heap, ref[t]),
                          ![t].i = IF m = "Is"
                                   THEN Len(Items(heap, ref[t])) ELSE @]
    /\ UNCHANGED <<heap, guard, ref, prog, opIdx, res, seqVars, mem, stk>>

ErrorsBody(t) ==
    /\ pc[t] = "rbody"
    /\ loc[t].m = "Errors"
    /\ ReadBody(t, "Errors")

ErrorBody(t) ==
    /\ pc[t] = "rbody"
    /\ loc[t].m = "Error"
    /\ ReadBody(t, "Error")

ErrOrNilBody(t) ==
    /\ pc[t] = "rbody"
    /\ loc[t].m = "ErrOrNil"
    /\ ReadBody(t, "ErrOrNil")

FormatBody(t) ==
    /\ pc[t] = "rbody"
    /\ loc[t].m = "Format"
    /\ ReadBody(t, "Format")

UnwrapBody(t) ==
    /\ pc[t] = "rbody"
    /\ loc[t].m = "Unwrap"
    /\ ReadBody(t, "Unwrap")

IsBody(t) ==
    /\ pc[t] = "rbody"
    /\ loc[t].m = "Is"
    /\ ReadBody(t, "Is")

AsBody(t) ==
    /\ pc[t] = "rbody"
    /\ loc[t].m = "As"
    /\ ReadBody(t, "As")


\* The steps of the goroutine t.
Step(t) ==
    \/ AddCall(t)
    \/ AddOnceCall(t)
    \/ ResetCall(t)
    \/ ReadCall(t)
    \/ ErrorsIsCall(t)
    \/ lock(t)
    \/ unlock(t)
    \/ rLock(t)
    \/ rUnlock(t)
    \/ AddBody(t)
    \/ AddOnceBody(t)
    \/ AddOnceAppend(t)
    \/ AppendStore(t)
    \/ ResetBody(t)
    \/ ErrorsBody(t)
    \/ ErrorBody(t)
    \/ ErrOrNilBody(t)
    \/ FormatBody(t)
    \/ UnwrapBody(t)
    \/ IsBody(t)
    \/ AsBody(t)

Next == \E t \in Threads : Step(t)

Spec == Init /\ [][Next]_vars

\* The scheduler of Go lets every goroutine that can take a step take one:
\* a goroutine waits only in Lock and RLock, and goes on once the mutex is
\* free for it.
\* (Every step of a goroutine changes its position or its call index.)
SpecFair == Spec /\ \A t \in Threads : WF_<<pc, opIdx>>(Step(t))

(***************************************************************************)
(* Properties of the API, one caller (SpecSeq).                            *)
(***************************************************************************)
\* The items the last call found stored, and its first argument.
PreItems == Stored(last.pre, last.recv)
NowItems == Stored(heap, sref)
Arg1 == last.args[1]

\* C5: every method is defined on an absent (nil) receiver: Error() is the
\* empty string, Errors() an absent slice, ErrOrNil() nil, Format writes
\* nothing, Unwrap() is nil, As is false, Is is false for every target that
\* is not an aggregate, and Reset() changes nothing and leaves the
\* reference absent.
C5_AbsentReceiver ==
    last.recv = NilPtr =>
        /\ last.op = "Error" => last.ret = <<>>
        /\ last.op = "Errors" => last.ret.isNil /\ last.ret.items = <<>>
        /\ last.op = "ErrOrNil" => last.ret = Nil
        /\ last.op = "Format" => last.ret = <<>>
        /\ last.op = "Unwrap" => last.ret = Nil
        /\ last.op = "As" => ~last.ret.ok
        /\ (last.op = "Is" /\ ~IsMulti(Arg1)) => last.ret = FALSE
        /\ last.op = "Reset" => sref = NilPtr /\ heap = last.pre

C5_Witness ==
    /\ last.op = "Errors"
    /\ last.recv = NilPtr
    /\ last.ret.isNil

\* C6: ErrOrNil() is nil with no item stored, the stored error itself with
\* exactly one, and the aggregate itself with two or more; so a returned
\* aggregate never holds fewer than two items.
C6_ErrOrNil ==
    last.op = "ErrOrNil" =>
        /\ Len(PreItems) = 0 => last.ret = Nil
        /\ Len(PreItems) = 1 => last.ret = PreItems[1]
        /\ Len(PreItems) >= 2 => last.ret = last.recv
        /\ IsMulti(last.ret) => Len(Items(heap, last.ret)) >= 2

C6_Witness ==
    /\ last.op = "ErrOrNil"
    /\ Len(PreItems) = 1
    /\ last.ret = Wrap1

\* C7: on an aggregate holding at least one item, errors.Is(agg, t) is true
\* exactly when t is the aggregate itself or some stored item, at any
\* index, matches t under errors.Is (so it is false for a nil target and
\* for an error no item matches); and errors.As(agg, &T) succeeds when an
\* item of type T is stored at any index.
C7_IdentityWalk ==
    (last.recv # NilPtr /\ Len(PreItems) >= 1) =>
        /\ last.op = "ErrorsIs" =>
              last.ret = (\/ Arg1 = last.recv
                          \/ \E i \in 1..Len(PreItems) :
                                ErrorsIs(last.pre, PreItems[i], Arg1))
        /\ (/\ last.op = "ErrorsAs"
            /\ \E i \in 1..Len(PreItems) : TypeOf(PreItems[i]) = Arg1)
              => last.ret.ok

C7_Witness ==
    /\ last.op = "ErrorsIs"
    /\ Len(PreItems) = 3
    /\ Arg1 = PreItems[3]
    /\ ~ErrorsIs(last.pre, PreItems[1], Arg1)
    /\ ~ErrorsIs(last.pre, PreItems[2], Arg1)
    /\ last.ret = TRUE

\* C8 as stated: Unwrap() is nil with 0 or 1 items stored, and with two or
\* more a new aggregate holding all items but the first, in order.
C8_Original ==
    last.op = "Unwrap" =>
        /\ Len(PreItems) <= 1 => last.ret = Nil
        /\ Len(PreItems) >= 2 =>
              last.ret.kind = "new" /\ last.ret.items = Tail(PreItems)

\* C8 as amended: Unwrap() is nil with no item stored, the single stored
\* item itself with exactly one, and with two or more a new aggregate
\* (guarded as its receiver is) holding all items but the first, in order.
C8_Unwrap ==
    last.op = "Unwrap" =>
        /\ Len(PreItems) = 0 => last.ret = Nil
        /\ Len(PreItems) = 1 => last.ret = PreItems[1]
        /\ Len(PreItems) >= 2 =>
              /\ last.ret.kind = "new"
              /\ last.ret.items = Tail(PreItems)
              /\ (last.ret.id = 1) = Guarded(last.pre, last.recv)
        /\ NowItems = PreItems

C8_Witness ==
    /\ last.op = "Unwrap"
    /\ Len(PreItems) = 1
    /\ last.ret = PreItems[1]

\* Neither error "is" the other.
Unrelated(a, b) == ~ErrorsIs(heap, a, b) /\ ~ErrorsIs(heap, b, a)

\* The third call of AddOnce(err1); AddOnce(err2); AddOnce(err3) on an
\* empty aggregate, err2 unrelated to err1 and err3: [err1, err2] is what
\* the first two calls left.
ThirdAddOnce ==
    /\ last.op = "AddOnce"
    /\ Len(last.args) = 1
    /\ Arg1 # Nil
    /\ Len(PreItems) = 2
    /\ AddOnce(<<NewMultiError>>, Ptr(1), PreItems).h[1].errors = PreItems
    /\ Unrelated(PreItems[2], PreItems[1])
    /\ Unrelated(PreItems[2], Arg1)

\* C9 as stated: when err3 "is" err1 (errors.Is(err3, err1)), the three
\* calls leave exactly [err1, err2].
C9_Original ==
    (ThirdAddOnce /\ ErrorsIs(heap, Arg1, PreItems[1])) => NowItems = PreItems

\* C9 as amended: when err1 "is" err3 (errors.Is(err1, err3): the stored
\* error is the subject, the candidate the target), the three calls leave
\* exactly [err1, err2].
C9_AddOnceDedup ==
    (ThirdAddOnce /\ ErrorsIs(heap, PreItems[1], Arg1)) => NowItems = PreItems

C9_Witness ==
    /\ ThirdAddOnce
    /\ PreItems[1] = Wrap1
    /\ Arg1 = StdErr(1)
    /\ NowItems = PreItems

\* C10: Add(errs...) appends exactly the non-nil members of errs at the
\* end, in argument order, duplicates included; after Add calls alone the
\* stored sequence is the concatenation of their non-nil arguments in call
\* order; and no stored item is ever nil.
C10_Add ==
    /\ last.op = "Add" => NowItems = PreItems \o NonNil(last.args)
    /\ ghost.onlyAdd => NowItems = ghost.concat
    /\ \A i \in 1..Len(NowItems) : NowItems[i] # Nil

C10_Witness ==
    /\ last.op = "Add"
    /\ last.args = <<StdErr(2), Nil, StdErr(2)>>
    /\ PreItems = <<StdErr(1)>>
    /\ NowItems = <<StdErr(1), StdErr(2), StdErr(2)>>
    /\ ghost.onlyAdd

(***************************************************************************)
(* Properties of the guard and of lazy allocation, goroutines (Spec).      *)
(***************************************************************************)
\* Every goroutine works on the one instance made by NewMultiError.
Shared == Len(heap) >= 1 /\ heap[1].mu /\ \A t \in Threads : ref[t] = Ptr(1)
\* Every goroutine started from the absent reference.
Lazy == Len(heap) = 0 \/ ~heap[1].mu
AllDone == \A t \in Threads : ~Running(t)
AllTest == \A t \in Threads : prog[t] = "test"
NoReset == \A t \in Threads : prog[t] # "reset"
Count(items, e) == Cardinality({i \in 1..Len(items) : items[i] = e})
InWrite(t) == pc[t] \in {"wbody", "wappend", "wstore", "unlock"}
InRead(t) == pc[t] \in {"rbody", "runlock"}

\* C1: on the instance made by NewMultiError, when every goroutine has run
\* Add(e_t), AddOnce(e_t), Errors, Error, ErrOrNil, Format and errors.Is
\* with its own error e_t and all have finished, the aggregate has exactly
\* as many items as there are goroutines and holds every e_t exactly once.
C1_NoLostAppend ==
    (Shared /\ AllTest /\ AllDone) =>
        /\ Len(heap[1].errors) = NumThreads
        /\ \A t \in Threads : Count(heap[1].errors, Own(t)) = 1

C1_Witness ==
    /\ Shared /\ AllTest /\ AllDone
    /\ Len(heap[1].errors) = NumThreads

\* C2: on the instance made by NewMultiError, at most one goroutine is
\* inside a write section (the append of Add, the check and append of
\* AddOnce, the clearing of Reset) and none is inside a read section while
\* one is inside a write section; read sections may overlap.
C2_Guard ==
    Shared =>
        \A t \in Threads : \A u \in Threads \ {t} :
            InWrite(t) => ~InWrite(u) /\ ~InRead(u)

C2_Witness ==
    /\ Shared
    /\ \E t \in Threads : \E u \in Threads \ {t} :
        /\ InWrite(t)
        /\ pc[u] \in {"lock", "rlock"}

\* Read sections do overlap.
C2_ReadersOverlap ==
    /\ Shared
    /\ \E t \in Threads : \E u \in Threads \ {t} : InRead(t) /\ InRead(u)

\* Call i of goroutine t comes after a call Add(..., e_t, ...) of its own.
AddedBefore(t, i) ==
    \E j \in 1..(i - 1) :
        /\ Program(t)[j].name = "Add"
        /\ \E k \in 1..Len(Program(t)[j].args) :
              Program(t)[j].args[k] = Own(t)

\* Call i of goroutine t is errors.Is(agg, e_t).
IsOwnWalk(t, i) ==
    /\ Program(t)[i].name = "ErrorsIs"
    /\ Program(t)[i].args[1] = Own(t)

\* Goroutine t is inside errors.Is(agg, e_t), after a returned Add(e_t).
InWalk(t) ==
    /\ Running(t)
    /\ IsOwnWalk(t, opIdx[t])
    /\ AddedBefore(t, opIdx[t])

\* C3: on the instance made by NewMultiError and never Reset, after a
\* goroutine's Add(e) has returned, its ErrOrNil() is non-nil and its
\* errors.Is(agg, e) is true: if Is answered false, what Unwrap returns
\* still leads to e, whatever was added between the two steps.
C3_AfterOwnAdd ==
    (Shared /\ NoReset) =>
        \A t \in Threads :
            /\ LET i == res[t].idx IN
                (i > 0 /\ AddedBefore(t, i)) =>
                    /\ Program(t)[i].name = "ErrOrNil" => res[t].ret # Nil
                    /\ IsOwnWalk(t, i) => res[t].ret = TRUE
            /\ (InWalk(t) /\ pc[t] = "runlock") =>
                    IF loc[t].m = "Is"
                    THEN loc[t].ret \/ Len(heap[1].errors) >= 2
                    ELSE /\ loc[t].ret # Nil
                         /\ IsLoop(heap, loc[t].ret, Own(t))

\* The walk of goroutine t has called Unwrap after a false Is, and the
\* aggregate had grown between the two.
C3_Witness ==
    /\ Shared /\ NoReset
    /\ \E t \in Threads :
        /\ InWalk(t)
        /\ pc[t] = "runlock"
        /\ loc[t].m = "Unwrap"
        /\ loc[t].ret.kind = "new"
        /\ Len(loc[t].ret.items) + 1 > loc[t].i
        /\ IsLoop(heap, loc[t].ret, Own(t))

\* C4: goroutines that call Add on the same absent reference each get an
\* instance of their own: the instances are distinct, each holds only
\* errors its caller gave, and none holds the errors of two goroutines.
C4_LazyNotShared ==
    Lazy =>
        /\ \A t \in Threads : \A u \in Threads \ {t} :
              ref[t] # NilPtr => ref[t] # ref[u]
        /\ \A t \in Threads :
              ref[t] # NilPtr =>
                 \A i \in 1..Len(heap[ref[t].id].errors) :
                    heap[ref[t].id].errors[i] \in {Own(t), Sentinel}
        /\ \A a \in 1..Len(heap) :
              \A t \in Threads : \A u \in Threads \ {t} :
                 ~(Count(heap[a].errors, Own(t)) > 0
                   /\ Count(heap[a].errors, Own(u)) > 0)

C4_Witness ==
    /\ Lazy
    /\ \E t \in Threads : \E u \in Threads \ {t} :
        /\ prog[t] = "test" /\ res[t].idx >= 1
        /\ prog[u] = "test" /\ res[u].idx >= 1
        /\ ref[t] # NilPtr /\ ref[u] # NilPtr
        /\ heap[ref[t].id].errors = <<Own(t)>>
        /\ heap[ref[u].id].errors = <<Own(u)>>

\* s is a prefix of t.
IsPrefix(s, t) == Len(s) <= Len(t) /\ SubSeq(t, 1, Len(s)) = s
\* The step is the clearing of Reset by some goroutine on the object at a.
ResetStep(a) ==
    \E t \in Threads :
        /\ pc[t] = "wbody" /\ loc[t].m = "Reset" /\ ref[t] = Ptr(a)
        /\ pc'[t] = "unlock"
\* The step is the store of the append of Add or AddOnce on the object at a.
StoreStep(a) ==
    \E t \in Threads :
        /\ pc[t] = "wstore" /\ loc[t].m \in {"Add", "AddOnce"}
        /\ ref[t] = Ptr(a)
        /\ pc'[t] = "unlock"

\* C11: the stored sequence of an instance is append-only between resets:
\* every step of every goroutine other than the clearing of Reset leaves
\* the sequence before it a prefix of the sequence after it, and only the
\* store of Add and AddOnce (and the clearing of Reset) changes it at all,
\* so every step of a reading method leaves it equal.
C11_AppendOnly ==
    [][\A a \in 1..Len(heap) :
          /\ Len(heap') >= Len(heap)
          /\ heap'[a].mu = heap[a].mu
          /\ IsPrefix(heap[a].errors, heap'[a].errors) \/ ResetStep(a)
          /\ heap'[a].errors # heap[a].errors => StoreStep(a) \/ ResetStep(a)
      ]_vars

\* A goroutine has just appended to a sequence that held an item already.
C11_Witness ==
    \E t \in Threads :
        /\ pc[t] = "unlock" /\ loc[t].m \in {"Add", "AddOnce"}
        /\ ref[t] = Ptr(1)
        /\ Len(heap[1].errors) >= 2
        /\ heap[1].errors[Len(heap[1].errors)] = CurOp(t).args[loc[t].i]

(***************************************************************************)
(* SpecMem: the storage of one instance, one caller.  A slice is a header  *)
(* [arr, len] over a backing array (arr is its index in mem.arrays, its    *)
(* length the capacity); the caller keeps the slice Errors() returned and  *)
(* may write into it.  mem is                                              *)
(*   arrays  the backing arrays some slice still refers to                 *)
(*   init    whether the caller's reference is an instance (not nil)       *)
(*   errs    the header of mErr.errors                                     *)
(*   snap    the header of the slice Errors() returned last (held: there   *)
(*           is one; isNil: it is the nil slice)                           *)
(*   copy    history: the items the caller saw in that slice, with the     *)
(*           caller's own writes                                           *)
(*   abs     history: the stored items as a sequence value                 *)
(*   op, args, ret  the last call;  pre  the state before it               *)
(***************************************************************************)
MemItems == {StdErr(1), Wrap1}
MemArgLists == UNION {[1..n -> MemItems \cup {Nil}] : n \in 1..2}

\* s[1..len] of a slice header hd.
View(arrays, hd) == IF hd.arr = 0 THEN <<>> ELSE SubSeq(arrays[hd.arr], 1, hd.len)
NoSlice == [arr |-> 0, len |-> 0]

\* The capacity append grows a full array of capacity c to.
GrowCap(c) == IF c = 0 THEN 1 ELSE 2 * c

\* make([]error, n): the arrays with a new array of n nil slots.
MakeSlice(arrays, n) ==
    [arrays |-> Append(arrays, [i \in 1..n |-> Nil]),
     hd |-> [arr |-> Len(arrays) + 1, len |-> n]]

\* append(s, e) for the slice hd: in place when there is room, into a new
\* array otherwise.
SliceAppend(arrays, hd, e) ==
    IF hd.arr # 0 /\ hd.len < Len(arrays[hd.arr])
    THEN [arrays |-> [arrays EXCEPT ![hd.arr][hd.len + 1] = e],
          hd |-> [hd EXCEPT !.len = @ + 1]]
    ELSE LET c == GrowCap(hd.len)
             grown == [i \in 1..c |->
                          IF i <= hd.len THEN arrays[hd.arr][i]
                          ELSE IF i = hd.len + 1 THEN e ELSE Nil]
         IN [arrays |-> Append(arrays, grown),
             hd |-> [arr |-> Len(arrays) + 1, len |-> hd.len + 1]]

\* hasError on the storage.
MemHasError(m, err) ==
    \E i \in 1..m.errs.len : ErrorsIs(<<>>, m.arrays[m.errs.arr][i], err)

RECURSIVE MemAddAll(_, _, _)
\* The loop of Add (once = FALSE) and AddOnce (once = TRUE) on the storage.
MemAddAll(m, errs, once) ==
    IF errs = <<>> THEN m
    ELSE LET err == Head(errs) IN
         IF err = Nil THEN MemAddAll(m, Tail(errs), once)
         ELSE LET m1 == IF m.init THEN m
                        ELSE LET s0 == MakeSlice(m.arrays, 0) IN
                             [m EXCEPT !.init = TRUE, !.arrays = s0.arrays,
                                       !.errs = s0.hd]
              IN IF once /\ MemHasError(m1, err)
                 THEN MemAddAll(m1, Tail(errs), once)
                 ELSE LET r == SliceAppend(m1.arrays, m1.errs, err) IN
                      MemAddAll([m1 EXCEPT !.arrays = r.arrays, !.errs = r.hd],
                                Tail(errs), once)

\* A slip of Reset: the slots are cleared but the slice keeps its length.
MemReset_NoTruncate(m) ==
    IF ~m.init \/ m.errs.len = 0 THEN m
    ELSE [m EXCEPT !.arrays[m.errs.arr] =
                      [i \in 1..Len(@) |-> IF i <= m.errs.len THEN Nil ELSE @[i]]]

\* Reset on the storage: the slots in use are set to nil, then errors[:0].
MemReset(m) ==
    IF ~m.init \/ m.errs.len = 0 THEN m
    ELSE [m EXCEPT !.arrays[m.errs.arr] =
                      [i \in 1..Len(@) |-> IF i <= m.errs.len THEN Nil ELSE @[i]],
                   !.errs.len = 0]

\* A slip of Errors: the slice of the instance itself is returned.
MemErrors_Alias(m) ==
    IF ~m.init THEN [m EXCEPT !.snap = [held |-> TRUE, isNil |-> TRUE, hd |-> NoSlice]]
    ELSE [m EXCEPT !.snap = [held |-> TRUE, isNil |-> FALSE, hd |-> m.errs]]

\* Errors() on the storage: make([]error, len) and copy.
MemErrors(m) ==
    IF ~m.init THEN [m EXCEPT !.snap = [held |-> TRUE, isNil |-> TRUE, hd |-> NoSlice]]
    ELSE LET s0 == MakeSlice(m.arrays, m.errs.len)
             filled == [s0.arrays EXCEPT ![s0.hd.arr] =
                           [i \in 1..m.errs.len |-> m.arrays[m.errs.arr][i]]]
         IN [m EXCEPT !.arrays = filled,
                      !.snap = [held |-> TRUE, isNil |-> FALSE, hd |-> s0.hd]]

\* The instance a reading method sees, as a heap of one object.
MemHeap(m) == <<[errors |-> View(m.arrays, m.errs), mu |-> TRUE]>>
MemRecv(m) == IF m.init THEN Ptr(1) ELSE NilPtr

\* The arrays no slice refers to are dropped and the others renumbered.
Gc(m) ==
    LET live == {m.errs.arr, m.snap.hd.arr} \ {0}
        NewId(a) == IF a = 0 THEN 0 ELSE Cardinality({b \in live : b <= a})
    IN [m EXCEPT !.arrays = [i \in 1..Cardinality(live) |->
                                m.arrays[CHOOSE a \in live : NewId(a) = i]],
                 !.errs.arr = NewId(@),
                 !.snap.hd.arr = NewId(@)]

\* What is kept of the state before a call.
MemPre(m) == [init |-> m.init, clean |-> m.clean, items |-> View(m.arrays, m.errs)]
MemCalled(m, op, args, ret) ==
    [m EXCEPT !.op = op, !.args = args, !.ret = ret]

MemStart(init) ==
    [arrays |-> IF init THEN << <<>> >> ELSE <<>>,
     init |-> init,
     errs |-> IF init THEN [arr |-> 1, len |-> 0] ELSE NoSlice,
     snap |-> [held |-> FALSE, isNil |-> TRUE, hd |-> NoSlice],
     copy |-> <<>>, abs |-> <<>>, clean |-> FALSE,
     op |-> "idle", args |-> <<>>, ret |-> Nil,
     pre |-> [init |-> init, clean |-> FALSE, items |-> <<>>]]

\* var multiErr *xerr.MultiError, or multiErr := xerr.NewMultiError()
InitMem ==
    /\ mem \in {MemStart(FALSE), MemStart(TRUE)}
    /\ heap = <<>>
    /\ sref = NilPtr
    /\ last = Idle
    /\ ghost = [onlyAdd |-> TRUE, concat |-> <<>>]
    /\ guard = <<>>
    /\ prog = [t \in Threads |-> "none"]
    /\ opIdx = [t \in Threads |-> 1]
    /\ pc = [t \in Threads |-> "call"]
    /\ ref = [t \in Threads |-> NilPtr]
    /\ loc = [t \in Threads |-> LocIdle]
    /\ res = [t \in Threads |-> NoRes]
    /\ stk = StkOff

memRest == <<heap, sref, last, ghost, conVars, stk>>

\* multiErr = multiErr.Add(errs...)
MemAdd ==
    /\ \E errs \in MemArgLists :
        /\ Len(mem.abs) + Len(NonNil(errs)) <= MaxLen
        /\ mem' = Gc([MemCalled(MemAddAll(mem, errs, FALSE), "Add", errs, Nil)
                        EXCEPT !.pre = MemPre(mem),
                               !.clean = mem.clean /\ NonNil(errs) = <<>>,
                               !.abs = Add(<<[errors |-> mem.abs, mu |-> TRUE]>>,
                                           Ptr(1), errs).h[1].errors])
    /\ UNCHANGED memRest

\* multiErr = multiErr.AddOnce(errs...)
MemAddOnce ==
    /\ \E errs \in MemArgLists :
        /\ Len(mem.abs) + Len(NonNil(errs)) <= MaxLen
        /\ mem' = Gc([MemCalled(MemAddAll(mem, errs, TRUE), "AddOnce", errs, Nil)
                        EXCEPT !.pre = MemPre(mem),
                               !.clean = mem.clean /\ NonNil(errs) = <<>>,
                               !.abs = AddOnce(<<[errors |-> mem.abs, mu |-> TRUE]>>,
                                               Ptr(1), errs).h[1].errors])
    /\ UNCHANGED memRest

\* multiErr.Reset()
MemResetCall ==
    /\ mem' = Gc([MemCalled(MemReset(mem), "Reset", <<>>, Nil)
                    EXCEPT !.pre = MemPre(mem),
                           !.clean = mem.init,
                           !.abs = <<>>])
    /\ UNCHANGED memRest

\* errs := multiErr.Errors()
MemErrorsCall ==
    /\ mem' = Gc([MemCalled(MemErrors(mem), "Errors", <<>>, Nil)
                    EXCEPT !.pre = MemPre(mem),
                           !.copy = mem.abs])
    /\ UNCHANGED memRest

\* multiErr.ErrOrNil()
MemErrOrNil ==
    /\ mem' = [MemCalled(mem, "ErrOrNil", <<>>, ErrOrNil(MemHeap(mem), MemRecv(mem)))
                  EXCEPT !.pre = MemPre(mem)]
    /\ UNCHANGED memRest

\* multiErr.Error()
MemError ==
    /\ mem' = [MemCalled(mem, "Error", <<>>, Error(MemHeap(mem), MemRecv(mem)))
                  EXCEPT !.pre = MemPre(mem)]
    /\ UNCHANGED memRest

\* errs[i] = e: the caller changes the slice it got from Errors().
MemSnapWrite ==
    /\ mem.snap.held
    /\ \E i \in 1..mem.snap.hd.len : \E e \in MemItems \cup {Nil} :
        mem' = [MemCalled(mem, "write", <<e>>, Nil)
                  EXCEPT !.pre = MemPre(mem),
                         !.arrays[mem.snap.hd.arr][i] = e,
                         !.copy[i] = e]
    /\ UNCHANGED memRest

NextMem ==
    \/ MemAdd
    \/ MemAddOnce
    \/ MemResetCall
    \/ MemErrorsCall
    \/ MemErrOrNil
    \/ MemError
    \/ MemSnapWrite

SpecMem == InitMem /\ [][NextMem]_vars

(***************************************************************************)
(* Properties of the storage (SpecMem).                                    *)
(***************************************************************************)
\* C12: Errors() returns an independent snapshot in insertion order: what
\* it returns is the stored sequence; the slice a caller holds keeps its
\* length and items over every later Add, AddOnce and Reset (the clearing
\* of the slots by Reset included), and the caller's writes into it leave
\* the stored sequence as the calls on the instance made it.
C12_Snapshot ==
    /\ View(mem.arrays, mem.errs) = mem.abs
    /\ (mem.snap.held /\ ~mem.snap.isNil) =>
           View(mem.arrays, mem.snap.hd) = mem.copy
    /\ (mem.op = "Errors" /\ mem.init) =>
           /\ ~mem.snap.isNil
           /\ View(mem.arrays, mem.snap.hd) = mem.pre.items
           /\ mem.snap.hd.arr # mem.errs.arr

\* The caller holds a slice of two items or more, and Reset has just
\* cleared an instance that stored something.
C12_Witness ==
    /\ mem.snap.held /\ mem.snap.hd.len >= 2
    /\ mem.op = "Reset" /\ mem.pre.items # <<>>
    /\ View(mem.arrays, mem.snap.hd) = mem.copy

\* C13: Reset() leaves an initialized aggregate initialized and empty:
\* until the next insertion Errors() is a present, empty sequence,
\* ErrOrNil() is nil and Error() is the empty text; the next Add stores
\* exactly its non-nil arguments; an instance never becomes absent again.
C13_Reset ==
    /\ mem.pre.init => mem.init
    /\ (mem.op = "Reset" /\ mem.pre.init) =>
           /\ mem.errs.arr # 0
           /\ View(mem.arrays, mem.errs) = <<>>
    /\ (mem.pre.clean /\ mem.op = "Errors") =>
           /\ mem.snap.held /\ ~mem.snap.isNil
           /\ View(mem.arrays, mem.snap.hd) = <<>>
    /\ (mem.pre.clean /\ mem.op = "ErrOrNil") => mem.ret = Nil
    /\ (mem.pre.clean /\ mem.op = "Error") => mem.ret = <<>>
    /\ (mem.pre.clean /\ mem.op = "Add") =>
           View(mem.arrays, mem.errs) = NonNil(mem.args)

\* Add(e) after the Reset of an instance that had stored two items or
\* more: the array is the one used before.
C13_Witness ==
    /\ mem.pre.clean /\ mem.op = "Add"
    /\ Len(NonNil(mem.args)) = 1
    /\ View(mem.arrays, mem.errs) = NonNil(mem.args)
    /\ Len(mem.arrays[mem.errs.arr]) >= 2

(***************************************************************************)
(* More properties of the API, one caller (SpecSeq).                       *)
(***************************************************************************)
\* C14: Add and AddOnce allocate lazily and return the instance to keep:
\* on an absent reference with a non-nil error among the arguments they
\* return a newly allocated, unguarded instance holding the stored errors;
\* on an absent reference with no non-nil error they return the absent
\* reference and allocate nothing; on an instance they return that instance.
C14_LazyAlloc ==
    last.op \in {"Add", "AddOnce"} =>
        /\ sref = last.ret
        /\ (last.recv = NilPtr /\ NonNil(last.args) # <<>>) =>
              /\ last.ret = Ptr(Len(last.pre) + 1)
              /\ Len(heap) = Len(last.pre) + 1
              /\ ~heap[last.ret.id].mu
              /\ NowItems # <<>>
              /\ last.op = "Add" => NowItems = NonNil(last.args)
              /\ \A i \in 1..Len(NowItems) :
                    \E k \in 1..Len(last.args) : NowItems[i] = last.args[k]
        /\ (last.recv = NilPtr /\ NonNil(last.args) = <<>>) =>
              /\ last.ret = NilPtr
              /\ heap = last.pre
        /\ last.recv # NilPtr =>
              /\ last.ret = last.recv
              /\ Len(heap) = Len(last.pre)

\* AddOnce on an absent reference has stored two errors in a new instance.
C14_Witness ==
    /\ last.op = "AddOnce"
    /\ last.recv = NilPtr
    /\ last.ret # NilPtr
    /\ Len(NowItems) >= 2

RECURSIVE JoinSep(_)
\* The texts of the items (one at least) with one "\n" between neighbours.
JoinSep(items) ==
    IF Len(items) = 1 THEN Text(items[1])
    ELSE Text(Head(items)) \o <<NL>> \o JoinSep(Tail(items))

\* C15: Error() is the empty text when nothing is stored, the item's text
\* when one item is stored, and otherwise the texts of all items in
\* insertion order with a single newline between them and none at the end.
C15_Error ==
    (last.op = "Error" /\ last.recv # NilPtr) =>
        /\ Len(PreItems) = 0 => last.ret = <<>>
        /\ Len(PreItems) = 1 => last.ret = Text(PreItems[1])
        /\ Len(PreItems) >= 2 =>
              /\ last.ret = JoinSep(PreItems)
              /\ last.ret[Len(last.ret)] # NL
              /\ Cardinality({i \in 1..Len(last.ret) : last.ret[i] = NL})
                     = Len(PreItems) - 1

\* Error() of two stored items: "x\ny".
C15_Witness ==
    /\ last.op = "Error"
    /\ last.recv # NilPtr
    /\ Len(PreItems) = 2
    /\ last.ret = Text(PreItems[1]) \o <<NL>> \o Text(PreItems[2])

\* The block of item k in the verbose rendering: the line "error #k",
\* then the item's own verbose rendering or its plain text.
VerboseBlock(items, k) ==
    <<Tok("error #", 0), Tok("int", k), NL>>
    \o (IF IsFormatter(items[k]) THEN ItemFormat(items[k], "v", TRUE)
        ELSE Text(items[k]))

RECURSIVE VerboseUpTo(_, _)
\* The blocks of the first n items (one at least), a newline between them.
VerboseUpTo(items, n) ==
    IF n = 1 THEN VerboseBlock(items, 1)
    ELSE VerboseUpTo(items, n - 1) \o <<NL>> \o VerboseBlock(items, n)

\* C16: the %+v rendering writes nothing for an empty aggregate; otherwise,
\* for the items in insertion order, the line "error #k" (k from 1), then
\* the item's own verbose rendering if it is a formatter and its Error()
\* text if not, one newline between consecutive items, none after the last.
C16_Verbose ==
    (last.op = "Format" /\ last.args[1] = "v" /\ last.args[2]) =>
        /\ Len(PreItems) = 0 => last.ret = <<>>
        /\ Len(PreItems) > 0 =>
              /\ last.ret = VerboseUpTo(PreItems, Len(PreItems))
              /\ last.ret[Len(last.ret)] # NL

\* A rendering of a formatter item and of an item that is not one.
C16_Witness ==
    /\ last.op = "Format" /\ last.args[1] = "v" /\ last.args[2]
    /\ Len(PreItems) >= 2
    /\ \E i, j \in 1..Len(PreItems) :
          IsFormatter(PreItems[i]) /\ ~IsFormatter(PreItems[j])
    /\ last.ret = VerboseUpTo(PreItems, Len(PreItems))

(***************************************************************************)
(* SpecStack: stack errors (src/stack_error.go), one caller.  A            *)
(* *stackError is an address in stk.objs, equal only to itself; an object  *)
(* is [origErr, msg, stackPCs], never changed once built.  A call stack    *)
(* is the sequence of program counters runtime.Callers reports from the    *)
(* caller of the constructor outwards.  stk is                             *)
(*   objs   the stack errors built so far                                  *)
(*   depth  the number of frames below the caller's call sites             *)
(*   op, args, ret  the last call;  pre  the number of objects before it   *)
(***************************************************************************)
maxStackFrames == 32

SErr(a) == [kind |-> "stack", id |-> a, items |-> <<>>]
\* Errors of other packages: errors.New(...) and fmt.Errorf("...%w", ...).
Foreign == {StdErr(1), Wrap1}
Known(o) == {SErr(a) : a \in 1..Len(o)}

\* Messages, as texts; "" is the empty text.
Msgs == {<<>>, <<Tok("a", 0)>>}
\* A format with its arguments.
FmtCalls ==
    {[f |-> <<>>, a |-> <<>>],
     [f |-> <<Tok("b=", 0), Tok("%d", 0)>>, a |-> <<Tok("int", 7)>>]}

RECURSIVE Sprintf(_, _)
\* fmt.Sprintf(format, args...): each verb is replaced by its argument.
Sprintf(f, a) ==
    IF f = <<>> THEN <<>>
    ELSE IF Head(f).s = "%d" /\ a # <<>>
         THEN <<Head(a)>> \o Sprintf(Tail(f), Tail(a))
         ELSE <<Head(f)>> \o Sprintf(Tail(f), a)

\* The call stack at the n-th constructor call: its call site, then the
\* frames of the callers.
CallStack(n, depth) == <<n>> \o [i \in 1..depth |-> 100 + i]
ShallowDepth == 1
DeepDepth == maxStackFrames + 1

Min(a, b) == IF a <= b THEN a ELSE b

\* getCallStack(maxDepth): pcs[:n] with n what runtime.Callers filled.
getCallStack(maxDepth, stack) == SubSeq(stack, 1, Min(maxDepth, Len(stack)))

Built(o, obj) == [o |-> Append(o, obj), e |-> SErr(Len(o) + 1)]

\* New(msg)
New(o, msg, stack) ==
    Built(o, [origErr |-> Nil, msg |-> msg,
              stackPCs |-> getCallStack(maxStackFrames, stack)])

\* Errorf(format, args...)
Errorf(o, f, a, stack) ==
    Built(o, [origErr |-> Nil, msg |-> Sprintf(f, a),
              stackPCs |-> getCallStack(maxStackFrames, stack)])

\* A slip of Wrap: the extended stack is cut at the capture depth.
WrapPCs_Truncated(o, err, stack) ==
    IF err.kind = "stack"
    THEN getCallStack(maxStackFrames, getCallStack(1, stack) \o o[err.id].stackPCs)
    ELSE getCallStack(maxStackFrames, stack)

\* The stackPCs of Wrap and Wrapf.
WrapPCs(o, err, stack) ==
    IF err.kind = "stack"
    THEN getCallStack(1, stack) \o o[err.id].stackPCs
    ELSE getCallStack(maxStackFrames, stack)

\* A slip of Wrap: nil is wrapped like any error.
Wrap_NoNilCheck(o, err, msg, stack) ==
    Built(o, [origErr |-> err, msg |-> msg, stackPCs |-> WrapPCs(o, err, stack)])

\* Wrap(err, msg)
Wrap(o, err, msg, stack) ==
    IF err = Nil THEN [o |-> o, e |-> Nil]
    ELSE Built(o, [origErr |-> err, msg |-> msg,
                   stackPCs |-> WrapPCs(o, err, stack)])

\* Wrapf(err, format, args...)
Wrapf(o, err, f, a, stack) ==
    IF err = Nil THEN [o |-> o, e |-> Nil]
    ELSE Built(o, [origErr |-> err, msg |-> Sprintf(f, a),
                   stackPCs |-> WrapPCs(o, err, stack)])

RECURSIVE StackText_AlwaysColon(_, _)
\* A slip of Error: ": " is written for an empty message too.
StackText_AlwaysColon(o, e) ==
    IF e.kind # "stack" THEN Text(e)
    ELSE LET x == o[e.id] IN
         IF x.origErr # Nil
         THEN x.msg \o <<Tok(": ", 0)>> \o StackText_AlwaysColon(o, x.origErr)
         ELSE x.msg

RECURSIVE StackText(_, _)
\* err.Error() of a stack error or of a foreign error.
StackText(o, e) ==
    IF e.kind # "stack" THEN Text(e)
    ELSE LET x == o[e.id] IN
         IF x.origErr # Nil
         THEN IF x.msg = <<>> THEN StackText(o, x.origErr)
              ELSE x.msg \o <<Tok(": ", 0)>> \o StackText(o, x.origErr)
         ELSE x.msg

\* A slip of Unwrap: the cause is not given.
StackUnwrap_Nil(o, e) == Nil

\* stackError.Unwrap()
StackUnwrap(o, e) == o[e.id].origErr

RECURSIVE StackIsLoop(_, _, _)
\* errors.Is's loop over a chain of stack errors and foreign errors.
StackIsLoop(o, err, target) ==
    IF err = target THEN TRUE
    ELSE IF err.kind = "stack"
         THEN LET u == StackUnwrap(o, err) IN
              IF u = Nil THEN FALSE ELSE StackIsLoop(o, u, target)
         ELSE IF err.kind = "wrap" THEN StackIsLoop(o, err.items[1], target)
         ELSE FALSE

\* errors.Is(err, target)
StackErrorsIs(o, err, target) ==
    IF err = Nil \/ target = Nil THEN err = target
    ELSE StackIsLoop(o, err, target)

(***************************************************************************)
(* Frame policies (src/stack_error_config.go).  A string is a sequence of  *)
(* parts: the separators "/" and ".", and runs of other characters.        *)
(***************************************************************************)
Separator == "/"

\* strings.HasPrefix(s, p)
HasPrefix(s, p) == Len(s) >= Len(p) /\ SubSeq(s, 1, Len(p)) = p

\* strings.Contains(s, p)
Contains(s, p) ==
    \E i \in 0..(Len(s) - Len(p)) : SubSeq(s, i + 1, i + Len(p)) = p

\* strings.Index(s, c) and strings.LastIndex(s, c): positions count from 0,
\* -1 when c is not in s.
Index(s, c) ==
    IF \E i \in 1..Len(s) : s[i] = c
    THEN (CHOOSE i \in 1..Len(s) : s[i] = c /\ \A j \in 1..(i - 1) : s[j] # c) - 1
    ELSE -1

LastIndex(s, c) ==
    IF \E i \in 1..Len(s) : s[i] = c
    THEN (CHOOSE i \in 1..Len(s) :
              s[i] = c /\ \A j \in (i + 1)..Len(s) : s[j] # c) - 1
    ELSE -1

\* s[pos:]
SliceFrom(s, pos) == SubSeq(s, pos + 1, Len(s))

\* A slip of ShortFunctionName: the cut is at the first "/".
ShortFunctionName_FirstSlash(fnName) ==
    LET firstSlashPos == Index(fnName, "/") IN
    IF firstSlashPos >= 0 THEN SliceFrom(fnName, firstSlashPos + 1) ELSE fnName

\* ShortFunctionName(fnName)
ShortFunctionName(fnName) ==
    LET lastSlashPos == LastIndex(fnName, "/") IN
    IF lastSlashPos >= 0 THEN SliceFrom(fnName, lastSlashPos + 1) ELSE fnName

\* OnlyFunctionName(fnName)
OnlyFunctionName(fnName) ==
    LET short == ShortFunctionName(fnName)
        firstDotPos == Index(short, ".")
    IN IF firstDotPos >= 0 THEN SliceFrom(short, firstDotPos + 1) ELSE short

\* NoDomainFunctionName(fnName)
NoDomainFunctionName(fnName) ==
    LET firstSlashPos == Index(fnName, "/") IN
    IF firstSlashPos >= 0 THEN SliceFrom(fnName, firstSlashPos + 1) ELSE fnName

\* The processors of the package, and the values of frameFnNameProcessor
\* the callers set: nil or a processor.
FnNameProcessors ==
    {"ShortFunctionName", "OnlyFunctionName", "NoDomainFunctionName"}
Processors == {"nil", "ShortFunctionName", "OnlyFunctionName"}

\* frameFnNameProcessor(fnName) for a processor that is not nil.
Process(p, fnName) ==
    CASE p = "ShortFunctionName" -> ShortFunctionName(fnName)
      [] p = "OnlyFunctionName" -> OnlyFunctionName(fnName)
      [] p = "NoDomainFunctionName" -> NoDomainFunctionName(fnName)
      [] OTHER -> fnName

\* The values of skipFrame: AllowFrame, a function of the application that
\* skips every frame, and SkipFrameGoRootSrcPath(next) over these.
AllowFrame == [name |-> "AllowFrame", next |-> <<>>]
SkipAll == [name |-> "SkipAll", next |-> <<>>]
GoRootSrcPath(next) == [name |-> "SkipFrameGoRootSrcPath", next |-> <<next>>]
Policies == {AllowFrame, SkipAll, GoRootSrcPath(AllowFrame)}

\* A slip of SkipFrameGoRootSrcPath: only the file is tested.
SkipFrameGoRootSrcPath_FileOnly(next, fnName, file) ==
    IF Contains(file, <<Separator, "go", Separator, "src", Separator>>)
    THEN [skip |-> TRUE, calls |-> 0]
    ELSE [skip |-> next, calls |-> 1]

\* SkipFrameGoRootSrcPath(next)(fnName, file), next standing for what
\* next(fnName, file) returns when it is called: the result, and the number
\* of calls made to next.
SkipFrameGoRootSrcPath(next, fnName, file) ==
    IF \/ HasPrefix(fnName, <<"runtime", ".">>)
       \/ HasPrefix(fnName, <<"testing", ".">>)
       \/ HasPrefix(fnName, <<"internal", "/">>)
       \/ Contains(file, <<Separator, "go", Separator, "src", Separator>>)
    THEN [skip |-> TRUE, calls |-> 0]
    ELSE [skip |-> next, calls |-> 1]

RECURSIVE CallSkip(_, _, _)
\* p(fnName, file) for a value p of skipFrame: the result, and the number
\* of calls p made to its next.
CallSkip(p, fnName, file) ==
    CASE p.name = "AllowFrame" -> [skip |-> FALSE, calls |-> 0]
      [] p.name = "SkipAll" -> [skip |-> TRUE, calls |-> 0]
      [] OTHER ->
            SkipFrameGoRootSrcPath(CallSkip(p.next[1], fnName, file).skip,
                                   fnName, file)

(***************************************************************************)
(* The stackPCs slices over their backing arrays.                          *)
(***************************************************************************)
\* getCallStack(maxDepth) on the memory: make([]uintptr, maxDepth), the
\* slots runtime.Callers filled, and the slice pcs[:n].
getCallStackSlice(arrays, maxDepth, stack) ==
    [arrays |-> Append(arrays, [i \in 1..maxDepth |->
                                   IF i <= Len(stack) THEN stack[i] ELSE 0]),
     hd |-> [arr |-> Len(arrays) + 1, len |-> Min(maxDepth, Len(stack))]]

\* append(s, elems...) for the slice hd: in place when the array has room,
\* into a new array otherwise.
AppendAll(arrays, hd, elems) ==
    LET need == hd.len + Len(elems)
        cap == Len(arrays[hd.arr])
    IN IF need <= cap
       THEN [arrays |-> [arrays EXCEPT ![hd.arr] =
                            [i \in 1..cap |->
                                IF i > hd.len /\ i <= need
                                THEN elems[i - hd.len] ELSE @[i]]],
             hd |-> [hd EXCEPT !.len = need]]
       ELSE LET c == IF need > 2 * cap THEN need ELSE 2 * cap
                grown == [i \in 1..c |->
                             IF i <= hd.len THEN arrays[hd.arr][i]
                             ELSE IF i <= need THEN elems[i - hd.len] ELSE 0]
            IN [arrays |-> Append(arrays, grown),
                hd |-> [arr |-> Len(arrays) + 1, len |-> need]]

\* A slip of Wrap: the call site is appended to the frames of the cause,
\* append(sErr.stackPCs, getCallStack(1)...).
WrapSlice_Shared(arrays, hdrs, err, stack) ==
    IF err.kind = "stack"
    THEN LET c == getCallStackSlice(arrays, 1, stack) IN
         AppendAll(c.arrays, hdrs[err.id], View(c.arrays, c.hd))
    ELSE getCallStackSlice(arrays, maxStackFrames, stack)

\* The stackPCs slice of Wrap and Wrapf for a cause that is not nil.
WrapSlice(arrays, hdrs, err, stack) ==
    IF err.kind = "stack"
    THEN LET c == getCallStackSlice(arrays, 1, stack) IN
         AppendAll(c.arrays, c.hd, View(c.arrays, hdrs[err.id]))
    ELSE getCallStackSlice(arrays, maxStackFrames, stack)

(***************************************************************************)
(* Rendering of a stack error.                                             *)
(***************************************************************************)
UserFn ==
    <<"example", ".", "com", "/", "foo", "/", "pkg", ".", "(*Class)", ".",
      "Method">>
UserFile == <<"/", "home", "/", "user", "/", "project", "/", "foo", ".go">>
MainFn == <<"main", ".", "run">>
MainFile == <<"/", "home", "/", "user", "/", "project", "/", "main", ".go">>
TestingFn == <<"testing", ".", "tRunner">>
TestingFile ==
    <<"/", "usr", "/", "local", "/", "go", "/", "src", "/", "testing", "/",
      "testing", ".go">>
GoexitFn == <<"runtime", ".", "goexit">>
GoexitFile ==
    <<"/", "usr", "/", "local", "/", "go", "/", "src", "/", "runtime", "/",
      "asm", ".s">>

\* getFrame(pc): the function, file and line of a program counter; all
\* empty where runtime.FuncForPC knows no function.
getFrame(p) ==
    CASE p < 100 -> [fnName |-> UserFn, file |-> UserFile, line |-> 10 + p]
      [] p = 100 -> [fnName |-> TestingFn, file |-> TestingFile, line |-> 1]
      [] p = 101 -> [fnName |-> <<>>, file |-> <<>>, line |-> 0]
      [] p > 101 /\ p % 2 = 0 ->
            [fnName |-> MainFn, file |-> MainFile, line |-> p]
      [] OTHER -> [fnName |-> GoexitFn, file |-> GoexitFile, line |-> p]

\* io.WriteString of a string: its parts as text.
Written(s) == [i \in 1..Len(s) |-> Tok(s[i], 0)]

\* writeFrame(w, fnName, file, line) under the name processor proc.
writeFrame(proc, fnName, file, line) ==
    <<NL>>
    \o Written(IF proc # "nil" THEN Process(proc, fnName) ELSE fnName)
    \o <<Tok("\n\t", 0)>> \o Written(file)
    \o <<Tok(":", 0), Tok("int", line)>>

\* stackError.writeMsg(w)
writeMsg(o, e) ==
    LET x == o[e.id] IN
    x.msg \o (IF x.origErr # Nil
              THEN (IF x.msg # <<>> THEN <<Tok(": ", 0)>> ELSE <<>>)
                   \o StackText(o, x.origErr)
              ELSE <<>>)

RECURSIVE writeFrames_Unfiltered(_, _, _)
\* A slip of Format: every frame is written.
writeFrames_Unfiltered(pcs, skip, proc) ==
    IF pcs = <<>> THEN <<>>
    ELSE LET fr == getFrame(Head(pcs) - 1) IN
         writeFrame(proc, fr.fnName, fr.file, fr.line)
         \o writeFrames_Unfiltered(Tail(pcs), skip, proc)

RECURSIVE writeFrames(_, _, _)
\* The loop of Format over stackPCs under the policies skip and proc.
writeFrames(pcs, skip, proc) ==
    IF pcs = <<>> THEN <<>>
    ELSE LET fr == getFrame(Head(pcs) - 1) IN
         (IF ~CallSkip(skip, fr.fnName, fr.file).skip
          THEN writeFrame(proc, fr.fnName, fr.file, fr.line) ELSE <<>>)
         \o writeFrames(Tail(pcs), skip, proc)

\* A slip of Format: %s and %v write the message only.
StackFormat_NoCause(o, pcs, e, verb, plus, skip, proc) ==
    CASE verb = "v" /\ plus -> writeMsg(o, e) \o writeFrames(pcs, skip, proc)
      [] verb \in {"v", "s"} -> o[e.id].msg
      [] OTHER -> <<>>

\* stackError.Format(f, verb) for the error e with the frames pcs.
StackFormat(o, pcs, e, verb, plus, skip, proc) ==
    CASE verb = "v" /\ plus -> writeMsg(o, e) \o writeFrames(pcs, skip, proc)
      [] verb \in {"v", "s"} -> writeMsg(o, e)
      [] OTHER -> <<>>

StkCall(op, args, ret) ==
    [stk EXCEPT !.op = op, !.args = args, !.ret = ret, !.pre = Len(stk.objs)]

\* No stack error is built yet and the package variables hold their
\* initial values; the caller builds at most max stack errors.
StackStart(max, depths) ==
    /\ stk \in {[objs |-> <<>>, arrays |-> <<>>, hdrs |-> <<>>,
                 skipFrame |-> AllowFrame, frameFnNameProcessor |-> "nil",
                 depth |-> d, max |-> max, op |-> "idle", args |-> <<>>,
                 ret |-> Nil, pre |-> 0] : d \in depths}
    /\ mem = MemOff
    /\ heap = <<>>
    /\ sref = NilPtr
    /\ last = Idle
    /\ ghost = [onlyAdd |-> TRUE, concat |-> <<>>]
    /\ guard = <<>>
    /\ prog = [t \in Threads |-> "none"]
    /\ opIdx = [t \in Threads |-> 1]
    /\ pc = [t \in Threads |-> "call"]
    /\ ref = [t \in Threads |-> NilPtr]
    /\ loc = [t \in Threads |-> LocIdle]
    /\ res = [t \in Threads |-> NoRes]

InitStack == StackStart(MaxErrs, {ShallowDepth, DeepDepth})

stkRest == <<heap, sref, last, ghost, conVars, mem>>
\* The call stack of the constructor call made now.
StackNow == CallStack(Len(stk.objs) + 1, stk.depth)

\* err := xerr.New(msg)
StkNew ==
    /\ stk.op = "idle"
    /\ Len(stk.objs) < stk.max
    /\ \E msg \in Msgs :
        LET r == New(stk.objs, msg, StackNow)
            m == getCallStackSlice(stk.arrays, maxStackFrames, StackNow)
        IN stk' = [StkCall("New", <<msg>>, r.e) EXCEPT
                      !.objs = r.o, !.arrays = m.arrays,
                      !.hdrs = Append(@, m.hd)]
    /\ UNCHANGED stkRest

\* err := xerr.Errorf(format, args...)
StkErrorf ==
    /\ stk.op = "idle"
    /\ Len(stk.objs) < stk.max
    /\ \E c \in FmtCalls :
        LET r == Errorf(stk.objs, c.f, c.a, StackNow)
            m == getCallStackSlice(stk.arrays, maxStackFrames, StackNow)
        IN stk' = [StkCall("Errorf", <<c>>, r.e) EXCEPT
                      !.objs = r.o, !.arrays = m.arrays,
                      !.hdrs = Append(@, m.hd)]
    /\ UNCHANGED stkRest

\* err2 := xerr.Wrap(err, msg)
StkWrap ==
    /\ stk.op = "idle"
    /\ Len(stk.objs) < stk.max
    /\ \E err \in Known(stk.objs) \cup Foreign \cup {Nil}, msg \in Msgs :
        LET r == Wrap(stk.objs, err, msg, StackNow)
            m == WrapSlice(stk.arrays, stk.hdrs, err, StackNow)
        IN stk' = [StkCall("Wrap", <<err, msg>>, r.e) EXCEPT
                      !.objs = r.o,
                      !.arrays = IF r.e = Nil THEN @ ELSE m.arrays,
                      !.hdrs = IF r.e = Nil THEN @ ELSE Append(@, m.hd)]
    /\ UNCHANGED stkRest

\* err2 := xerr.Wrapf(err, format, args...)
StkWrapf ==
    /\ stk.op = "idle"
    /\ Len(stk.objs) < stk.max
    /\ \E err \in Known(stk.objs) \cup Foreign \cup {Nil}, c \in FmtCalls :
        LET r == Wrapf(stk.objs, err, c.f, c.a, StackNow)
            m == WrapSlice(stk.arrays, stk.hdrs, err, StackNow)
        IN stk' = [StkCall("Wrapf", <<err, Sprintf(c.f, c.a)>>, r.e) EXCEPT
                      !.objs = r.o,
                      !.arrays = IF r.e = Nil THEN @ ELSE m.arrays,
                      !.hdrs = IF r.e = Nil THEN @ ELSE Append(@, m.hd)]
    /\ UNCHANGED stkRest

\* err.Error()
StkError ==
    /\ stk.op = "idle"
    /\ \E e \in Known(stk.objs) :
        stk' = StkCall("Error", <<e>>, StackText(stk.objs, e))
    /\ UNCHANGED stkRest

\* err.Unwrap()
StkUnwrap ==
    /\ stk.op = "idle"
    /\ \E e \in Known(stk.objs) :
        stk' = StkCall("Unwrap", <<e>>, StackUnwrap(stk.objs, e))
    /\ UNCHANGED stkRest

\* errors.Is(err, target), err the error built last or nil
StkIs ==
    /\ stk.op = "idle"
    /\ \E w \in (Known(stk.objs) \ Known(SubSeq(stk.objs, 1, Len(stk.objs) - 1)))
                 \cup {Nil} :
       \E t \in Known(stk.objs) \cup Foreign \cup {Nil, StdErr(3)} :
        stk' = StkCall("Is", <<w, t>>, StackErrorsIs(stk.objs, w, t))
    /\ UNCHANGED stkRest

\* The stack error built last.
Latest(o) == Known(o) \ Known(SubSeq(o, 1, Len(o) - 1))

\* The frames stored in the stack error e, read through its slice.
StoredPCs(e) == View(stk.arrays, stk.hdrs[e.id])

\* The renderings fmt makes of a stack error: %s, %v, %+v and %d.
Verbs ==
    {[verb |-> "s", plus |-> FALSE], [verb |-> "v", plus |-> FALSE],
     [verb |-> "v", plus |-> TRUE], [verb |-> "d", plus |-> FALSE]}

\* fmt.Sprintf("%+v", err) and the other verbs, err the error built last
StkFormat ==
    /\ stk.op = "idle"
    /\ \E e \in Latest(stk.objs), v \in Verbs :
        stk' = StkCall("Format", <<e, v, <<>>>>,
                       StackFormat(stk.objs, StoredPCs(e), e, v.verb, v.plus,
                                   stk.skipFrame, stk.frameFnNameProcessor))
    /\ UNCHANGED stkRest

\* The same rendering once more, with the text of the first at hand.
StkFormatAgain ==
    /\ stk.op = "Format"
    /\ stk.args[3] = <<>>
    /\ LET e == stk.args[1]
           v == stk.args[2]
       IN stk' = [stk EXCEPT
                     !.args = <<e, v, <<stk.ret>>>>,
                     !.ret = StackFormat(stk.objs, StoredPCs(e), e, v.verb,
                                         v.plus, stk.skipFrame,
                                         stk.frameFnNameProcessor)]
    /\ UNCHANGED stkRest

\* xerr.SetSkipFrame(fn)
StkSetSkipFrame ==
    /\ stk.op = "idle"
    /\ \E fn \in Policies :
        /\ fn # stk.skipFrame
        /\ stk' = [stk EXCEPT !.skipFrame = fn]
    /\ UNCHANGED stkRest

\* xerr.SetFrameFnNameProcessor(fn)
StkSetFrameFnNameProcessor ==
    /\ stk.op = "idle"
    /\ \E fn \in Processors :
        /\ fn # stk.frameFnNameProcessor
        /\ stk' = [stk EXCEPT !.frameFnNameProcessor = fn]
    /\ UNCHANGED stkRest

\* The caller has looked at the result and goes on to its next call.
StkReturn ==
    /\ stk.op # "idle"
    /\ stk' = StkCall("idle", <<>>, Nil)
    /\ UNCHANGED stkRest

NextStack ==
    \/ StkNew
    \/ StkErrorf
    \/ StkWrap
    \/ StkWrapf
    \/ StkError
    \/ StkUnwrap
    \/ StkIs
    \/ StkReturn

SpecStack == InitStack /\ [][NextStack]_vars

InitRender == StackStart(RenderErrs, {ShallowDepth})

NextRender ==
    \/ StkNew
    \/ StkWrap
    \/ StkWrapf
    \/ StkError
    \/ StkUnwrap
    \/ StkFormat
    \/ StkFormatAgain
    \/ StkSetSkipFrame
    \/ StkSetFrameFnNameProcessor
    \/ StkReturn

SpecRender == InitRender /\ [][NextRender]_vars

(***************************************************************************)
(* SpecConf: one caller applying the frame policies and the name           *)
(* processors of the package to function names and files.                  *)
(***************************************************************************)
\* The function names: every string of at most MaxName parts, and the
\* names of the frames.
NameParts == {"a", "runtime", "/", "."}
FnNames ==
    UNION {[1..n -> NameParts] : n \in 0..MaxName}
    \cup {UserFn, MainFn, TestingFn, GoexitFn, <<"foo", ".", "Bar">>,
          <<"internal", "/", "poll", ".", "x">>,
          <<"http", ".", "(*ServeMux)", ".", "ServeHTTP">>}

\* runtime.GOROOT(), and the files of the frames.
GOROOT == <<"/", "usr", "/", "local", "/", "go">>
Files ==
    {<<>>,
     <<"/", "foo", "/", "bar", "/", "baz", ".go">>,
     GOROOT \o <<"/", "bin", "/", "foo">>,
     GOROOT \o <<"/", "src", "/", "foo", "/", "bar", ".go">>,
     <<"/", "maybe", "/", "go", "/", "root", "/", "path">>,
     <<"/", "home", "/", "user", "/", "go", "/", "src", "/", "x", ".go">>,
     UserFile, TestingFile}

InitConf == StackStart(0, {ShallowDepth})

\* SkipFrameGoRootSrcPath(next)(fnName, file)
ConfSkipFrameGoRootSrcPath ==
    /\ stk.op = "idle"
    /\ \E next \in {AllowFrame, SkipAll}, fnName \in FnNames, file \in Files :
        stk' = StkCall("SkipFrameGoRootSrcPath", <<next, fnName, file>>,
                       CallSkip(GoRootSrcPath(next), fnName, file))
    /\ UNCHANGED stkRest

\* AllowFrame(fnName, file)
ConfAllowFrame ==
    /\ stk.op = "idle"
    /\ \E fnName \in FnNames, file \in Files :
        stk' = StkCall("AllowFrame", <<AllowFrame, fnName, file>>,
                       CallSkip(AllowFrame, fnName, file))
    /\ UNCHANGED stkRest

\* ShortFunctionName(fnName), OnlyFunctionName(fnName) and
\* NoDomainFunctionName(fnName)
ConfProcess ==
    /\ stk.op = "idle"
    /\ \E p \in FnNameProcessors, fnName \in FnNames :
        stk' = StkCall(p, <<fnName>>, Process(p, fnName))
    /\ UNCHANGED stkRest

NextConf ==
    \/ ConfSkipFrameGoRootSrcPath
    \/ ConfAllowFrame
    \/ ConfProcess
    \/ StkReturn

SpecConf == InitConf /\ [][NextConf]_vars

(***************************************************************************)
(* Properties of stack errors (SpecStack).                                 *)
(***************************************************************************)
\* C17: Wrap(nil, m) and Wrapf(nil, format, args...) return nil for every
\* message and format, and build no stack error.
C17_WrapNil ==
    (stk.op \in {"Wrap", "Wrapf"} /\ stk.args[1] = Nil) =>
        /\ stk.ret = Nil
        /\ Len(stk.objs) = stk.pre

\* Wrapf(nil, ...) with a message, after a stack error was built.
C17_Witness ==
    /\ stk.op = "Wrapf"
    /\ stk.args[1] = Nil
    /\ stk.args[2] # <<>>
    /\ stk.ret = Nil
    /\ Len(stk.objs) >= 1

\* The error whose Error() was called last, when it wraps a cause.
ErrOfWrap == stk.op = "Error" /\ stk.objs[stk.args[1].id].origErr # Nil
WrapMsg == stk.objs[stk.args[1].id].msg
WrapCause == stk.objs[stk.args[1].id].origErr

\* C18 as stated: for every non-nil err and every message m,
\* Wrap(err, m).Error() is m, then ": ", then err.Error().
C18_Original ==
    ErrOfWrap =>
        stk.ret = WrapMsg \o <<Tok(": ", 0)>> \o StackText(stk.objs, WrapCause)

\* C18: for every non-nil err, Wrap(err, m).Error() is m, then ": ", then
\* err.Error() when m is not empty, and err.Error() alone when m is empty.
C18_WrapText ==
    ErrOfWrap =>
        /\ WrapMsg # <<>> =>
              stk.ret = WrapMsg \o <<Tok(": ", 0)>>
                            \o StackText(stk.objs, WrapCause)
        /\ WrapMsg = <<>> => stk.ret = StackText(stk.objs, WrapCause)

\* Error() of a wrap with an empty message over a wrap with a message.
C18_Witness ==
    /\ ErrOfWrap
    /\ WrapMsg = <<>>
    /\ WrapCause.kind = "stack"
    /\ stk.objs[WrapCause.id].msg # <<>>
    /\ stk.objs[WrapCause.id].origErr # Nil
    /\ stk.ret = StackText(stk.objs, WrapCause)

\* C19: Wrap and Wrapf of a stack error give the frame of their call site
\* followed by all the frames of that error, however many (two wraps over
\* e have len(e.frames) + 2 frames, and the capture depth is no limit);
\* Wrap and Wrapf of a foreign error, like New and Errorf, take a new
\* capture of at most maxStackFrames frames.
C19_Frames ==
    \A a \in 1..Len(stk.objs) :
        LET x == stk.objs[a] IN
        IF x.origErr.kind = "stack"
        THEN /\ x.stackPCs = <<a>> \o stk.objs[x.origErr.id].stackPCs
             /\ LET y == stk.objs[x.origErr.id] IN
                 y.origErr.kind = "stack" =>
                    Len(x.stackPCs) = Len(stk.objs[y.origErr.id].stackPCs) + 2
        ELSE /\ Len(x.stackPCs) <= maxStackFrames
             /\ x.stackPCs = SubSeq(CallStack(a, stk.depth), 1, Len(x.stackPCs))
             /\ Len(x.stackPCs) = Min(maxStackFrames, stk.depth + 1)

\* Two wraps over a stack error that was captured at full depth: more
\* frames than the capture depth.
C19_Witness ==
    /\ stk.op \in {"Wrap", "Wrapf"}
    /\ stk.ret # Nil
    /\ LET x == stk.objs[stk.ret.id] IN
        /\ x.origErr.kind = "stack"
        /\ stk.objs[x.origErr.id].origErr.kind = "stack"
        /\ Len(x.stackPCs) = maxStackFrames + 2

RECURSIVE Chain(_, _)
\* e, the errors it wraps one after the other, and what the last of them
\* unwraps to.
Chain(o, e) ==
    {e} \cup (IF e.kind = "stack"
              THEN IF o[e.id].origErr = Nil THEN {} ELSE Chain(o, o[e.id].origErr)
              ELSE IF e.kind = "wrap" THEN Chain(o, e.items[1]) ELSE {})

\* C20: Unwrap() of what Wrap(err, m) or Wrapf(err, ...) built is err, of
\* what New or Errorf built nil; errors.Is(w, t) for a stack error w is
\* true exactly when t is w, an error of the chain w wraps, or something
\* the foreign base of the chain matches, and false for a nil target.
C20_UnwrapIs ==
    /\ (stk.op \in {"Wrap", "Wrapf"} /\ stk.args[1] # Nil) =>
           StackUnwrap(stk.objs, stk.ret) = stk.args[1]
    /\ stk.op \in {"New", "Errorf"} => StackUnwrap(stk.objs, stk.ret) = Nil
    /\ stk.op = "Unwrap" => stk.ret = stk.objs[stk.args[1].id].origErr
    /\ (stk.op = "Is" /\ stk.args[1] # Nil) =>
           stk.ret = (stk.args[2] # Nil /\ stk.args[2] \in Chain(stk.objs, stk.args[1]))

\* errors.Is finds, through two wraps, the error the foreign base wraps.
C20_Witness ==
    /\ stk.op = "Is"
    /\ stk.args[1] # Nil
    /\ stk.args[2] = StdErr(1)
    /\ stk.ret = TRUE
    /\ LET x == stk.objs[stk.args[1].id] IN
        /\ x.origErr.kind = "stack"
        /\ stk.objs[x.origErr.id].origErr = Wrap1

(***************************************************************************)
(* Properties of the rendering of stack errors (SpecRender).               *)
(***************************************************************************)
\* The frames of the stack error at address a, read through its slice.
FramesOf(s, a) == View(s.arrays, s.hdrs[a])

\* C21: a stack error is immutable after construction: no step (Wrap, Wrapf,
\* Error, Format, Unwrap, SetSkipFrame, SetFrameFnNameProcessor) changes the
\* message, the cause or the frames of a stack error that exists, the frames
\* read through its slice stay those its constructor computed, and no two
\* stack errors keep their frames in the same array, so that a later wrap
\* of the same cause writes into no wrapper's frames.
C21_Immutable ==
    [][/\ \A a \in 1..Len(stk.objs) :
            /\ Len(stk'.objs) >= a
            /\ stk'.objs[a] = stk.objs[a]
            /\ FramesOf(stk', a) = FramesOf(stk, a)
       /\ \A a \in 1..Len(stk'.objs) :
            FramesOf(stk', a) = stk'.objs[a].stackPCs
       /\ \A a, b \in 1..Len(stk'.objs) :
            a # b => stk'.hdrs[a].arr # stk'.hdrs[b].arr]_vars

\* One stack error was wrapped twice, the policies were changed and the
\* second wrapper is rendered.
C21_Witness ==
    /\ Len(stk.objs) = 3
    /\ stk.objs[2].origErr = SErr(1)
    /\ stk.objs[3].origErr = SErr(1)
    /\ stk.skipFrame.name = "SkipFrameGoRootSrcPath"
    /\ stk.frameFnNameProcessor = "ShortFunctionName"
    /\ stk.op = "Format"
    /\ stk.args[2].plus

\* The error rendered last, its verb and its stored frames.
Rendered == stk.args[1]
RenderedPlus == stk.op = "Format" /\ stk.args[2].verb = "v" /\ stk.args[2].plus
RenderedPCs == stk.objs[Rendered.id].stackPCs

\* Whether the skip policy installed now keeps the frame of pc.
Keeps(p) ==
    LET fr == getFrame(p - 1) IN ~CallSkip(stk.skipFrame, fr.fnName, fr.file).skip

\* The block of one frame: a new line, the function name as the installed
\* processor gives it, a new line and a tab, then file:line.
Block(p) ==
    LET fr == getFrame(p - 1)
        name == IF stk.frameFnNameProcessor = "nil" THEN fr.fnName
                ELSE Process(stk.frameFnNameProcessor, fr.fnName)
    IN <<NL>> \o Written(name) \o <<Tok("\n\t", 0)>> \o Written(fr.file)
       \o <<Tok(":", 0), Tok("int", fr.line)>>

RECURSIVE Blocks(_)
Blocks(pcs) == IF pcs = <<>> THEN <<>> ELSE Block(Head(pcs)) \o Blocks(Tail(pcs))

\* C22: filtering and name formatting act at render time only: the %+v
\* rendering is the message text followed by one block for exactly those
\* frames the constructor stored, in stored order, that the skip policy
\* installed at the time of rendering keeps; a second render under the same
\* policies gives the same text; a policy that skips every frame gives the
\* message text alone.
C22_RenderTime ==
    /\ RenderedPlus =>
        /\ stk.ret = StackText(stk.objs, Rendered)
                     \o Blocks(SelectSeq(RenderedPCs, Keeps))
        /\ stk.skipFrame.name = "SkipAll" =>
               stk.ret = StackText(stk.objs, Rendered)
    /\ (stk.op = "Format" /\ stk.args[3] # <<>>) => stk.ret = stk.args[3][1]

\* A %+v rendering made twice under policies that were changed, in which a
\* stored frame is left out and another is written with a shortened name.
C22_Witness ==
    /\ RenderedPlus
    /\ stk.args[3] # <<>>
    /\ stk.skipFrame.name = "SkipFrameGoRootSrcPath"
    /\ stk.frameFnNameProcessor = "OnlyFunctionName"
    /\ \E i \in 1..Len(RenderedPCs) : Keeps(RenderedPCs[i])
    /\ \E i \in 1..Len(RenderedPCs) : ~Keeps(RenderedPCs[i])
    /\ Len(stk.ret) > Len(StackText(stk.objs, Rendered))

RECURSIVE FirstLine(_)
\* The text up to the first new line.
FirstLine(text) ==
    IF text = <<>> \/ Head(text) = NL THEN <<>>
    ELSE <<Head(text)>> \o FirstLine(Tail(text))

\* The rule of the plain text of the stack error e: its message alone
\* without a cause, the text of the cause alone under an empty message,
\* else the message, ": " and the text of the cause.
RuleText(e) ==
    LET x == stk.objs[e.id] IN
    IF x.origErr = Nil THEN x.msg
    ELSE IF x.msg = <<>> THEN StackText(stk.objs, x.origErr)
    ELSE x.msg \o <<Tok(": ", 0)>> \o StackText(stk.objs, x.origErr)

\* C26: the plain text of a stack error follows one rule in every
\* rendering: Error(), %s, %v and the first line of %+v all give the
\* message alone when there is no cause, the text of the cause alone when
\* the message is empty, and message, ": ", text of the cause otherwise,
\* the cause's text following the same rule.
C26_OneRule ==
    /\ stk.op = "Error" =>
        /\ stk.ret = RuleText(stk.args[1])
        /\ stk.objs[stk.args[1].id].origErr.kind = "stack" =>
              StackText(stk.objs, stk.objs[stk.args[1].id].origErr)
                  = RuleText(stk.objs[stk.args[1].id].origErr)
    /\ (stk.op = "Format" /\ stk.args[2].verb \in {"s", "v"}) =>
        /\ FirstLine(stk.ret) = RuleText(Rendered)
        /\ FirstLine(stk.ret) = StackText(stk.objs, Rendered)
        /\ ~stk.args[2].plus => stk.ret = StackText(stk.objs, Rendered)

\* The %+v rendering, with frames, of a wrapper with a message around a
\* wrapper with an empty message around a stack error with a message.
C26_Witness ==
    /\ RenderedPlus
    /\ Len(stk.objs) = 3
    /\ Rendered = SErr(3)
    /\ stk.objs[3].origErr = SErr(2)
    /\ stk.objs[3].msg # <<>>
    /\ stk.objs[2].origErr = SErr(1)
    /\ stk.objs[2].msg = <<>>
    /\ stk.objs[1].msg # <<>>
    /\ Len(stk.ret) > Len(FirstLine(stk.ret))

(***************************************************************************)
(* Properties of the frame policies and name processors (SpecConf).        *)
(***************************************************************************)
ConfNext == stk.args[1]
ConfFn == stk.args[2]
ConfFile == stk.args[3]

\* The file lies under the source root of the standard library.
UnderStdSrc(file) == HasPrefix(file, GOROOT \o <<"/", "src", "/">>)

StdFnName(fnName) ==
    /\ Len(fnName) >= 2
    /\ \/ fnName[1] \in {"runtime", "testing"} /\ fnName[2] = "."
       \/ fnName[1] = "internal" /\ fnName[2] = "/"

\* The file has the directories go/src on its path.
HasGoSrc(file) ==
    \E i \in 1..(Len(file) - 4) :
        /\ file[i] = "/" /\ file[i + 1] = "go" /\ file[i + 2] = "/"
        /\ file[i + 3] = "src" /\ file[i + 4] = "/"

IsAfterLast(r, n, c) ==
    IF \A i \in 1..Len(n) : n[i] # c THEN r = n
    ELSE \E k \in 1..Len(n) :
            /\ n[k] = c
            /\ r = SubSeq(n, k + 1, Len(n))
            /\ \A i \in 1..Len(r) : r[i] # c

\* r is the part of n after its first c, n itself when c is not in n.
IsAfterFirst(r, n, c) ==
    IF \A i \in 1..Len(n) : n[i] # c THEN r = n
    ELSE \E k \in 1..Len(n) :
            /\ n[k] = c
            /\ \A j \in 1..(k - 1) : n[j] # c
            /\ r = SubSeq(n, k + 1, Len(n))

Suffixes(n) == {SubSeq(n, k, Len(n)) : k \in 1..(Len(n) + 1)}

\* C25: ShortFunctionName(n) is the part of n after its last "/" and
\* OnlyFunctionName(n) the part of ShortFunctionName(n) after its first ".",
\* each unchanged without the separator; "example.com/foo/pkg.(*Class).Method"
\* gives "pkg.(*Class).Method" and "(*Class).Method", the empty name the
\* empty name.
C25_Names ==
    /\ stk.op = "ShortFunctionName" =>
        /\ IsAfterLast(stk.ret, stk.args[1], "/")
        /\ stk.args[1] = UserFn =>
              stk.ret = <<"pkg", ".", "(*Class)", ".", "Method">>
        /\ stk.args[1] = <<>> => stk.ret = <<>>
    /\ stk.op = "OnlyFunctionName" =>
        /\ \E short \in Suffixes(stk.args[1]) :
              /\ IsAfterLast(short, stk.args[1], "/")
              /\ IsAfterFirst(stk.ret, short, ".")
        /\ stk.args[1] = UserFn => stk.ret = <<"(*Class)", ".", "Method">>
        /\ stk.args[1] = <<>> => stk.ret = <<>>

\* OnlyFunctionName of a name with two "/" and several ".".
C25_Witness ==
    /\ stk.op = "OnlyFunctionName"
    /\ stk.args[1] = UserFn
    /\ stk.ret = <<"(*Class)", ".", "Method">>

(***************************************************************************)
(* Further properties of the API (SpecSeq).                                *)
(***************************************************************************)
\* Some item of items "is" the candidate c: errors.Is(item, c).
StoredIs(items, c) == \E i \in 1..Len(items) : ErrorsIs(heap, items[i], c)

RECURSIVE OnceFold(_, _)
\* The candidates taken one after the other, each against the items
\* stored when its turn comes.
OnceFold(items, cands) ==
    IF cands = <<>> THEN items
    ELSE LET c == Head(cands) IN
         IF c = Nil \/ StoredIs(items, c) THEN OnceFold(items, Tail(cands))
         ELSE OnceFold(Append(items, c), Tail(cands))

\* C27: AddOnce(c) for a non-nil c appends c at the end unless some stored
\* item s satisfies errors.Is(s, c), and then leaves the contents as they
\* are; the check sees the items appended earlier in the same call, so
\* AddOnce(c, nil, d) with c stored and d new appends only d, and
\* AddOnce(e, e) on an empty aggregate stores e once.
C27_AddOnce ==
    last.op = "AddOnce" =>
        /\ NowItems = OnceFold(PreItems, last.args)
        /\ (Len(last.args) = 1 /\ Arg1 # Nil) =>
              NowItems = IF StoredIs(PreItems, Arg1) THEN PreItems
                         ELSE Append(PreItems, Arg1)
        /\ (/\ Len(last.args) = 3
            /\ last.args[2] = Nil
            /\ Arg1 # Nil
            /\ \E i \in 1..Len(PreItems) : PreItems[i] = Arg1
            /\ last.args[3] # Nil
            /\ ~StoredIs(PreItems, last.args[3])) =>
              NowItems = Append(PreItems, last.args[3])
        /\ (/\ PreItems = <<>>
            /\ Len(last.args) = 2
            /\ Arg1 # Nil
            /\ last.args[2] = Arg1) => NowItems = <<Arg1>>

\* AddOnce(c, nil, d) on an aggregate whose stored wrapper "is" c: only d
\* is appended.
C27_Witness ==
    /\ last.op = "AddOnce"
    /\ PreItems = <<Wrap1>>
    /\ last.args = <<StdErr(1), Nil, StdErr(2)>>
    /\ NowItems = <<Wrap1, StdErr(2)>>

\* AddOnce(e, e) on an empty aggregate stores e once.
C27_TwiceSame ==
    /\ last.op = "AddOnce"
    /\ PreItems = <<>>
    /\ last.args = <<StdErr(1), StdErr(1)>>
    /\ NowItems = <<StdErr(1)>>

\* C28: the aggregate's own Is(target) and As(target) look only at the
\* first stored item: they return errors.Is(items[0], target) and
\* errors.As(items[0], target); on an initialized aggregate without items,
\* one emptied by Reset included, both return false.
C28_FirstItem ==
    /\ (last.op = "Is" /\ last.recv # NilPtr) =>
          last.ret = IF PreItems = <<>> THEN FALSE
                     ELSE ErrorsIs(heap, PreItems[1], Arg1)
    /\ (last.op = "As" /\ last.recv # NilPtr) =>
          last.ret = IF PreItems = <<>> THEN NoMatch
                     ELSE ErrorsAs(heap, PreItems[1], Arg1)
    /\ (last.op = "Reset" /\ last.recv # NilPtr) =>
          /\ NowItems = <<>>
          /\ \A t \in SeqTargets : ~Is(heap, sref, t)
          /\ \A T \in Types : ~As(heap, sref, T).ok

\* Is on an aggregate whose second item, not its first, is the target.
C28_Witness ==
    /\ last.op = "Is"
    /\ Len(PreItems) >= 2
    /\ PreItems[2] = Arg1
    /\ PreItems[1] # Arg1
    /\ last.ret = FALSE

\* As on an initialized aggregate without items.
C28_Empty ==
    /\ last.op = "As"
    /\ last.recv # NilPtr
    /\ PreItems = <<>>
    /\ ~last.ret.ok

(***************************************************************************)
(* Further properties of the guard (Spec).                                 *)
(***************************************************************************)
\* The goroutine t has returned from its AddOnce(Sentinel, Own(t)).
OnceDone(t) == prog[t] = "once" /\ opIdx[t] > 1

\* C29: the check and the append of AddOnce are one atomic step on the
\* instance made by NewMultiError: when goroutines call AddOnce with the
\* same error and no Reset runs, that error is never stored twice, and it
\* is stored exactly once as soon as one of the calls has returned.
C29_OnceAtomic ==
    (Shared /\ NoReset) =>
        /\ Count(heap[1].errors, Sentinel) <= 1
        /\ (\E t \in Threads : OnceDone(t)) =>
              Count(heap[1].errors, Sentinel) = 1
        /\ \A t \in Threads : OnceDone(t) => Count(heap[1].errors, Own(t)) = 1

\* Every goroutine has called AddOnce with the same error and all are done.
C29_Witness ==
    /\ Shared
    /\ \A t \in Threads : prog[t] = "once"
    /\ AllDone
    /\ Count(heap[1].errors, Sentinel) = 1
    /\ Len(heap[1].errors) = NumThreads + 1

\* The goroutine t holds the guard of its instance, for writing or reading.
Holds(t) ==
    /\ ref[t] # NilPtr
    /\ heap[ref[t].id].mu
    /\ guard[ref[t].id].w = t \/ t \in guard[ref[t].id].r

\* errors.Is and errors.As run methods of an error that has some: Unwrap of
\* a wrapper, Is, As and Unwrap of an aggregate.
HasMethods(e) == e.kind \in {"wrap", "multi", "new"}

\* The step the goroutine t takes next runs a method of a stored error:
\* Error() calls err.Error() of every item, Is and As pass the first item
\* to errors.Is and errors.As, hasError passes every item to errors.Is, and
\* Format calls the Format or Error method of every item.
CallsStored(t) ==
    /\ ref[t] # NilPtr
    /\ LET items == heap[ref[t].id].errors IN
        \/ pc[t] = "rbody" /\ loc[t].m \in {"Error", "Format"} /\ Len(items) > 0
        \/ /\ pc[t] = "rbody" /\ loc[t].m \in {"Is", "As"}
           /\ Len(items) > 0 /\ HasMethods(items[1])
        \/ /\ pc[t] = "wbody" /\ loc[t].m = "AddOnce"
           /\ \E i \in 1..Len(items) : HasMethods(items[i])

\* C23 as stated: no operation holds the guard while it calls into code of
\* a stored error, except the formatting callback of rendering: Add,
\* AddOnce, Reset, Errors, Error, ErrOrNil, Unwrap, Is and As have released
\* the guard before a method of a stored error runs.
C23_Original ==
    \A t \in Threads :
        (CallsStored(t) /\ loc[t].m # "Format") => ~Holds(t)

\* What the code does: on the instance made by NewMultiError a method of a
\* stored error is only ever run with the guard held.
C23_GuardHeld ==
    \A t \in Threads : (Shared /\ CallsStored(t)) => Holds(t)

\* Error() is about to call err.Error() of a stored error with the read
\* guard held.
C23_Witness ==
    \E t \in Threads :
        /\ Shared
        /\ pc[t] = "rbody"
        /\ loc[t].m = "Error"
        /\ Len(heap[1].errors) > 0
        /\ t \in guard[1].r

\* The guard of the instance a is held by exactly the goroutines inside a
\* write section or a read section of it.
HeldByThoseInside(a) ==
    /\ guard[a].w # 0 => InWrite(guard[a].w) /\ ref[guard[a].w] = Ptr(a)
    /\ \A t \in guard[a].r : InRead(t) /\ ref[t] = Ptr(a)

\* C30: every operation releases the guard on every path it can take: the
\* guard is held only by goroutines inside an operation, it is free when no
\* operation is in progress, and under fair scheduling every goroutine
\* comes to the end of its calls of Add, AddOnce, Reset, Errors, Error,
\* ErrOrNil, Format, Unwrap, Is and As.
C30_Completes ==
    /\ [](\A a \in 1..Len(guard) :
            /\ HeldByThoseInside(a)
            /\ (\A t \in Threads : pc[t] = "call") => guard[a] = FreeGuard)
    /\ <>[]AllDone

\* Goroutines that took the skip path of AddOnce, cleared the aggregate
\* and read it have all returned and the guard is free.
C30_Witness ==
    /\ Shared
    /\ AllDone
    /\ guard[1] = FreeGuard
    /\ \E t \in Threads : prog[t] = "test"
    /\ \E t \in Threads : prog[t] = "reset"

====
